---- MODULE Spec2Model ----
(***************************************************************************)
(* The notes/styles collection of sticky-notes (src/src/notes):            *)
(* NotesCollection with its NoteData and NoteStyle entities, the three     *)
(* ways a collection is constructed (default(), From<StickyNotesDatabase>, *)
(* try_read) and its CRUD surface.                                         *)
(*                                                                         *)
(* A Uuid is a natural number; NilUuid is Uuid::nil().  A HashMap is a     *)
(* function on its key set.  The iteration order of the styles map, which  *)
(* keys().next() and keys().nth(i) read, is kept in style_keys.            *)
(* legacy_file is the indicator-stickynotes file being imported or         *)
(* exported and database the NotesDatabase parsed from it.                 *)
(* Of the application: config_notes is the text kept in the config store,  *)
(* sticky_windows maps the window ids to the notes shown, opening holds    *)
(* the windows being opened (StickyWindowCreated in flight), import_task   *)
(* and export_task are the tasks running beside the model, and running is  *)
(* false once the application has quit.  edit_context gives each sticky    *)
(* window its editor, if it has one, and edit_style is the dialog that     *)
(* edits a style, with the window that is being opened for it.             *)
(***************************************************************************)
EXTENDS Integers, Sequences, FiniteSets, TLC

\* ---------------------------------------------------------------- bounds
MaxNotes == 1
MaxStyles == 2

NoteIds == 1..MaxNotes
StyleIds == 1..MaxStyles
NilUuid == 0

\* ------------------------------------------------------------- constants
DEF_NOTE_WIDTH == 400
DEF_NOTE_HEIGHT == 300
DEF_NOTE_STYLE_NAME == "White"

Font_default == [style |-> "Default", size |-> "DEF_NOTE_FONT_SIZE"]

\* The text of last_modified in a legacy file: a time every zone has once, a
\* time that a daylight-saving shift skips in the local zone, and a text that
\* is not of the form %Y-%m-%dT%H:%M:%S (LegacyTimeTexts); CurrentTime is the
\* reading of the clock while the program runs.
UniqueTime == "2020-01-01T10:00:00"
SkippedTime == "2021-03-28T02:30:00"
CurrentTime == "2026-11-05T12:00:00"

\* DateTime<Local> and DateTime<Utc>, an instant: the local wall-clock
\* reading to the second and whether there is a sub-second part (subsec is 0
\* for a whole second).
DateTime(naive, subsec) == [naive |-> naive, subsec |-> subsec]

\* Inputs of the operations, drawn from small sets.
Times == {DateTime(CurrentTime, 0)}
StyleNames == {"White"}

\* The legacy databases a collection is imported from: one note, categories
\* 1..m and a default category; the category of the note and the default
\* category are one of 1..m or the nil uuid (a category the database lacks).
LegacyCategoryCounts == {0, 1, 2}

LegacyNote(uuid, cat) ==
    [uuid |-> uuid, body |-> "hi", last_modified |-> DateTime(UniqueTime, 0),
     properties |-> [position |-> <<1, 2>>, size |-> <<3, 4>>, locked |-> TRUE],
     cat |-> cat]

LegacyCategory == [name |-> "White", bgcolor_hsv |-> <<120, 1, 1>>, font |-> "Bold"]

LegacyDatabases ==
    UNION {{[notes |-> <<LegacyNote(1, cat)>>,
             properties |-> [all_visible |-> FALSE, default_cat |-> d],
             categories |-> [id \in 1..m |-> LegacyCategory]] :
               cat \in (1..m) \cup {NilUuid}, d \in (1..m) \cup {NilUuid}} :
           m \in LegacyCategoryCounts}

\* The durable texts a collection is read from, as the JSON object they hold:
\* notes 1..k of one style, styles 1..m and a default_style that is one of
\* 1..m or the nil uuid.
BlobNoteCounts == {0, 1}
BlobStyleCounts == {0, 1}

BlobNote(style) ==
    [content |-> "", modified |-> DateTime(CurrentTime, 0), style_id |-> style,
     position |-> <<0, 0>>, size |-> <<DEF_NOTE_WIDTH, DEF_NOTE_HEIGHT>>,
     is_locked |-> FALSE, is_visible |-> TRUE]

BlobStyle == [name |-> DEF_NOTE_STYLE_NAME, font |-> Font_default, bgcolor |-> <<1, 1, 1>>]

Blobs ==
    UNION {{[notes |-> [n \in 1..k |-> BlobNote(style)],
             styles |-> [id \in 1..m |-> BlobStyle],
             default_style |-> d] :
               k \in BlobNoteCounts, style \in IF m = 0 THEN {NilUuid} ELSE 1..m,
               d \in (1..m) \cup {NilUuid}} :
           m \in BlobStyleCounts}

VARIABLES notes, styles, style_keys, default_style, is_dirty, deleted_notes, last,
          legacy_file, database,
          config_notes, sticky_windows, opening, import_task, export_task, running,
          edit_context, edit_style

\* The state of the application around the collection.
app_vars == <<config_notes, sticky_windows, opening, import_task, export_task, running,
              edit_context, edit_style>>

vars == <<notes, styles, style_keys, default_style, is_dirty, deleted_notes, last,
          legacy_file, database, app_vars>>

\* No legacy file is in use / no legacy database has been parsed.
NoFile == [exists |-> FALSE]
NoDatabase == [parsed |-> FALSE]

\* ------------------------------------------------------ helper operators
Min(S) == CHOOSE x \in S : \A y \in S : x <= y

\* All orders in which a HashMap with key set K may iterate.
Orders(K) ==
    {s \in [1..Cardinality(K) -> K] : \A i, j \in 1..Cardinality(K) : s[i] = s[j] => i = j}

\* The order left after HashMap::remove(k): the other keys keep their places.
SelectSeq2(s, k) == SelectSeq(s, LAMBDA x : x /= k)

\* The map m without key k (HashMap::remove / remove_entry).
MapRemove(m, k) == [x \in DOMAIN m \ {k} |-> m[x]]

\* The map m with k bound to v (HashMap::insert).
MapInsert(m, k, v) == [x \in DOMAIN m \cup {k} |-> IF x = k THEN v ELSE m[x]]

EmptyMap == [x \in {} |-> 0]

\* What a method returns: the collection it leaves, its result, and the
\* branch of its body that ran where the result does not tell.
Ret(self, res, branch) == [self |-> self, res |-> res, branch |-> branch]

\* The record of the last call: the method, its result and the branch.
Call(op, ret) == [op |-> op, res |-> ret.res, branch |-> ret.branch]

\* ---------------------------------------------------------------- NoteData
NoteData_new(style, now) ==
    [content |-> "", modified |-> now, style_id |-> style,
     position |-> <<0, 0>>, size |-> <<DEF_NOTE_WIDTH, DEF_NOTE_HEIGHT>>,
     is_locked |-> FALSE, is_visible |-> TRUE, is_dirty |-> FALSE]

set_style(note, style_id) ==
    IF note.style_id /= style_id
    THEN [note EXCEPT !.style_id = style_id, !.is_dirty = TRUE]
    ELSE note

set_position(note, left, top) ==
    IF note.position /= <<left, top>>
    THEN [note EXCEPT !.position = <<left, top>>, !.is_dirty = TRUE]
    ELSE note

\* set_size that assigns and marks the note without comparing.
set_size_always_dirty(note, width, height) ==
    [note EXCEPT !.size = <<width, height>>, !.is_dirty = TRUE]

set_size(note, width, height) ==
    IF note.size /= <<width, height>>
    THEN [note EXCEPT !.size = <<width, height>>, !.is_dirty = TRUE]
    ELSE note

set_locking(note, on) ==
    IF note.is_locked /= on
    THEN [note EXCEPT !.is_locked = on, !.is_dirty = TRUE]
    ELSE note

set_visibility(note, on) ==
    IF note.is_visible /= on
    THEN [note EXCEPT !.is_visible = on, !.is_dirty = TRUE]
    ELSE note

NoteData_is_changed(note) == note.is_dirty

\* set_content that does nothing when the text is the content already.
set_content_if_changed(note, content, now) ==
    IF note.content /= content
    THEN [note EXCEPT !.content = content, !.modified = now, !.is_dirty = TRUE]
    ELSE note

set_content(note, content, now) ==
    [note EXCEPT !.content = content, !.modified = now, !.is_dirty = TRUE]

\* The titles of notes.  A text is the string of its characters; a character
\* takes one byte in UTF-8 unless it is outside ASCII.
EMTPY_TITLE == "<Empty>"
NO_TITLE == "Untitled"
MAX_TITLE_CHARS == 12

Utf8Len(ch) == IF ch = "é" THEN 2 ELSE 1

RECURSIVE ByteLen(_)
ByteLen(text) ==
    IF text = "" THEN 0
    ELSE Utf8Len(SubSeq(text, 1, 1)) + ByteLen(SubSeq(text, 2, Len(text)))

\* str::lines().next(): the characters before the first line feed; None for
\* the empty text only.
lines_next(text) ==
    LET feeds == {i \in 1..Len(text) : SubSeq(text, i, i) = "\n"}
        end == IF feeds = {} THEN Len(text) ELSE Min(feeds) - 1
    IN IF text = "" THEN [some |-> FALSE]
       ELSE [some |-> TRUE, line |-> SubSeq(text, 1, end)]

\* line.char_indices().nth(n): the byte index of character n, counted from 0.
char_indices_nth(line, n) ==
    IF n < Len(line) THEN [some |-> TRUE, byte_index |-> ByteLen(SubSeq(line, 1, n))]
    ELSE [some |-> FALSE]

\* Whether byte index b of the text lies between two characters.
is_char_boundary(line, b) == \E k \in 0..Len(line) : ByteLen(SubSeq(line, 1, k)) = b

\* line.get(0..hi): the bytes before hi, if hi is inside the text and between
\* two characters.
str_get_to(line, hi) ==
    IF hi <= ByteLen(line) /\ is_char_boundary(line, hi)
    THEN [some |-> TRUE,
          slice |-> SubSeq(line, 1, CHOOSE k \in 0..Len(line) :
                                        ByteLen(SubSeq(line, 1, k)) = hi)]
    ELSE [some |-> FALSE]

\* NoteData::get_title; the slice &line[..byte_index] is at a boundary that
\* char_indices gave.
NoteData_get_title(note) ==
    LET first == lines_next(note.content)
        nth == char_indices_nth(first.line, MAX_TITLE_CHARS)
    IN IF note.content = "" THEN [title |-> EMTPY_TITLE, branch |-> "is_empty"]
       ELSE IF ~first.some THEN [title |-> NO_TITLE, branch |-> "map_or"]
       ELSE IF ~nth.some THEN [title |-> first.line, branch |-> "None"]
       ELSE [title |-> str_get_to(first.line, nth.byte_index).slice, branch |-> "Some"]

NoteData_commit(note) == [note EXCEPT !.is_dirty = FALSE]

\* Vec::get(lo..hi): the sub-slice when the whole range lies inside the vector.
SliceGet(v, lo, hi) ==
    IF hi <= Len(v) THEN [some |-> TRUE, slice |-> SubSeq(v, lo + 1, hi)]
    ELSE [some |-> FALSE]

new_from_import(src, is_visible) ==
    LET p == SliceGet(src.properties.position, 0, 2)
        z == SliceGet(src.properties.size, 0, 2)
        position == IF p.some /\ Len(p.slice) = 2 THEN <<p.slice[1], p.slice[2]>>
                    ELSE IF p.some /\ Len(p.slice) = 1 THEN <<p.slice[1], 0>>
                    ELSE <<0, 0>>
        size == IF z.some /\ Len(z.slice) = 2 THEN <<z.slice[1], z.slice[2]>>
                ELSE IF z.some /\ Len(z.slice) = 1 THEN <<z.slice[1], 1>>
                ELSE <<1, 1>>
    IN [content |-> src.body, modified |-> src.last_modified, style_id |-> src.cat,
        position |-> position, size |-> size,
        is_locked |-> src.properties.locked, is_visible |-> is_visible,
        is_dirty |-> FALSE]

\* #[derive(Deserialize)] for NoteData: is_dirty is skipped and defaults to false.
NoteData_deserialize(json) ==
    [content |-> json.content, modified |-> json.modified, style_id |-> json.style_id,
     position |-> json.position, size |-> json.size,
     is_locked |-> json.is_locked, is_visible |-> json.is_visible,
     is_dirty |-> FALSE]

\* --------------------------------------------------------------- NoteStyle
Color_WHITE == <<1, 1, 1>>

NoteStyle_new(name, font, bgcolor) ==
    [name |-> name, font |-> font, bgcolor |-> bgcolor, is_dirty |-> FALSE]

NoteStyle_default == NoteStyle_new(DEF_NOTE_STYLE_NAME, Font_default, Color_WHITE)

set_name(style, name) ==
    IF style.name /= name
    THEN [style EXCEPT !.name = name, !.is_dirty = TRUE]
    ELSE style

set_font(style, font) ==
    IF style.font /= font
    THEN [style EXCEPT !.font = font, !.is_dirty = TRUE]
    ELSE style

set_background_color(style, color) ==
    IF style.bgcolor /= color
    THEN [style EXCEPT !.bgcolor = color, !.is_dirty = TRUE]
    ELSE style

NoteStyle_is_changed(style) == style.is_dirty

NoteStyle_commit(style) == [style EXCEPT !.is_dirty = FALSE]

\* #[derive(Deserialize)] for NoteStyle: bgcolor through color_from_str (the
\* three components of the array become r, g, b), is_dirty defaults to false.
NoteStyle_deserialize(json) ==
    [name |-> json.name, font |-> json.font,
     bgcolor |-> <<json.bgcolor[1], json.bgcolor[2], json.bgcolor[3]>>,
     is_dirty |-> FALSE]

\* Hsv -> Rgb for a hue that is a multiple of 60 degrees and saturation and
\* value 0 or 1 (the conversion is exact there).
HsvToRgb(h, sat, v) ==
    LET c == v * sat
        k == (h \div 60) % 6
        x == c * (k % 2)
        m == v - c
        rgb == CASE k = 0 -> <<c, x, 0>>
                 [] k = 1 -> <<x, c, 0>>
                 [] k = 2 -> <<0, c, x>>
                 [] k = 3 -> <<0, x, c>>
                 [] k = 4 -> <<x, 0, c>>
                 [] OTHER -> <<c, 0, x>>
    IN <<rgb[1] + m, rgb[2] + m, rgb[3] + m>>

FontStyles == {"Default", "Light", "Semibold", "Bold", "Monospace"}

\* parse_font: the font of a legacy category; a name that is no font style
\* falls back to Default.
parse_font(text) ==
    [style |-> IF text \in FontStyles THEN text ELSE "Default",
     size |-> "DEF_NOTE_FONT_SIZE"]

\* The closure of From<StickyNotesDatabase> that turns a category into a style.
StyleFromCategory(cat) ==
    LET g == SliceGet(cat.bgcolor_hsv, 0, 3)
        hsv == IF g.some /\ Len(g.slice) = 3 THEN g.slice
               ELSE IF g.some /\ Len(g.slice) = 2 THEN <<g.slice[1], g.slice[2], 0>>
               ELSE IF g.some /\ Len(g.slice) = 1 THEN <<g.slice[1], 0, 0>>
               ELSE <<0, 0, 0>>
    IN NoteStyle_new(cat.name, parse_font(cat.font), HsvToRgb(hsv[1], hsv[2], hsv[3]))

\* --------------------------------------------------------- NotesCollection
\* A collection value: the fields of struct NotesCollection and the iteration
\* order of its styles map.
Collection(n, s, keys, d, dirty, del) ==
    [notes |-> n, styles |-> s, style_keys |-> keys, default_style |-> d,
     is_dirty |-> dirty, deleted_notes |-> del]

\* default(): one default style and one note of that style.
NotesCollection_default(now) ==
    Collection([n \in {1} |-> NoteData_new(1, now)], [s \in {1} |-> NoteStyle_default],
               <<1>>, 1, FALSE, EmptyMap)

\* ensure_default_style: a default_style that is no key of styles is replaced
\* by the first key, after a default style was inserted into an empty map.
ensure_default_style(self, fresh) ==
    IF self.default_style \notin DOMAIN self.styles
    THEN LET s == IF DOMAIN self.styles = {}
                  THEN MapInsert(self.styles, fresh, NoteStyle_default)
                  ELSE self.styles
             keys == IF DOMAIN self.styles = {} THEN <<fresh>> ELSE self.style_keys
         IN [self EXCEPT !.styles = s, !.style_keys = keys,
                         !.default_style = IF Len(keys) > 0 THEN Head(keys) ELSE NilUuid]
    ELSE self

\* From<StickyNotesDatabase> that builds a collection with a clear dirty flag.
FromDatabase_clean(value, keys) ==
    LET uuids == {value.notes[i].uuid : i \in DOMAIN value.notes}
        lastOf(u) == CHOOSE i \in DOMAIN value.notes :
                        /\ value.notes[i].uuid = u
                        /\ \A j \in DOMAIN value.notes : value.notes[j].uuid = u => j <= i
        n == [u \in uuids |->
                 new_from_import(value.notes[lastOf(u)], value.properties.all_visible)]
        s == [id \in DOMAIN value.categories |-> StyleFromCategory(value.categories[id])]
        fresh == Min(StyleIds \ ({value.properties.default_cat}
                                    \cup {value.notes[i].cat : i \in DOMAIN value.notes}))
    IN ensure_default_style(
           Collection(n, s, keys, value.properties.default_cat, FALSE, EmptyMap), fresh)

\* impl From<StickyNotesDatabase> for NotesCollection; keys is the order in
\* which the collected styles map iterates.
FromDatabase(value, keys) ==
    LET uuids == {value.notes[i].uuid : i \in DOMAIN value.notes}
        \* collect(): of two entries with one key the later one stays
        lastOf(u) == CHOOSE i \in DOMAIN value.notes :
                        /\ value.notes[i].uuid = u
                        /\ \A j \in DOMAIN value.notes : value.notes[j].uuid = u => j <= i
        n == [u \in uuids |->
                 new_from_import(value.notes[lastOf(u)], value.properties.all_visible)]
        s == [id \in DOMAIN value.categories |-> StyleFromCategory(value.categories[id])]
        fresh == Min(StyleIds \ ({value.properties.default_cat}
                                    \cup {value.notes[i].cat : i \in DOMAIN value.notes}))
    IN ensure_default_style(
           Collection(n, s, keys, value.properties.default_cat, TRUE, EmptyMap), fresh)

\* try_read that takes no default_style from the text.
try_read_skips_default(input, keys) ==
    Collection([n \in DOMAIN input.notes |-> NoteData_deserialize(input.notes[n])],
               [s \in DOMAIN input.styles |-> NoteStyle_deserialize(input.styles[s])],
               keys, NilUuid, FALSE, EmptyMap)

\* try_read: serde fills the fields marked #[serde(skip)] (the dirty bits and
\* deleted_notes) with their defaults and takes the others from the text.
try_read(input, keys) ==
    Collection([n \in DOMAIN input.notes |-> NoteData_deserialize(input.notes[n])],
               [s \in DOMAIN input.styles |-> NoteStyle_deserialize(input.styles[s])],
               keys, input.default_style, FALSE, EmptyMap)

\* #[derive(Serialize)] for NoteData and NoteStyle: is_dirty is skipped,
\* bgcolor goes through color_to_str as an array of three components.
NoteData_serialize(note) ==
    [content |-> note.content, modified |-> note.modified, style_id |-> note.style_id,
     position |-> note.position, size |-> note.size,
     is_locked |-> note.is_locked, is_visible |-> note.is_visible]

NoteStyle_serialize(style) ==
    [name |-> style.name, font |-> style.font,
     bgcolor |-> <<style.bgcolor[1], style.bgcolor[2], style.bgcolor[3]>>]

\* try_write that writes the soft-deleted notes among the notes.
try_write_with_deleted(self) ==
    [notes |-> [n \in DOMAIN self.notes \cup DOMAIN self.deleted_notes |->
                   IF n \in DOMAIN self.notes THEN NoteData_serialize(self.notes[n])
                   ELSE NoteData_serialize(self.deleted_notes[n])],
     styles |-> [s \in DOMAIN self.styles |-> NoteStyle_serialize(self.styles[s])],
     default_style |-> self.default_style]

\* try_write: deleted_notes and is_dirty are marked #[serde(skip)].
try_write(self) ==
    [notes |-> [n \in DOMAIN self.notes |-> NoteData_serialize(self.notes[n])],
     styles |-> [s \in DOMAIN self.styles |-> NoteStyle_serialize(self.styles[s])],
     default_style |-> self.default_style]

\* Hsv::from_color_unclamped(Srgb) for components that are 0 or 1; the hue is
\* handed on in degrees within (-180, 180].
RgbToHsv(rgb) ==
    LET r == rgb[1]
        g == rgb[2]
        b == rgb[3]
        max == IF r >= g /\ r >= b THEN r ELSE IF g >= b THEN g ELSE b
        min == IF r <= g /\ r <= b THEN r ELSE IF g <= b THEN g ELSE b
        delta == max - min
        sector == IF delta = 0 THEN 0
                  ELSE IF max = r THEN (g - b) % 6
                  ELSE IF max = g THEN (b - r) + 2
                  ELSE (r - g) + 4
        hue == 60 * sector
    IN <<IF hue > 180 THEN hue - 360 ELSE hue, IF max = 0 THEN 0 ELSE delta, max>>

\* serialize_font: the name of the font style of a category.
serialize_font(font) == font.style

\* impl From<NotesCollection> for StickyNotesDatabase; order is the order in
\* which the notes map iterates.  get_modified() is the same instant.
ToDatabase(value, order) ==
    [notes |-> [i \in DOMAIN order |->
                   LET note == value.notes[order[i]]
                   IN [uuid |-> order[i], body |-> note.content,
                       last_modified |-> note.modified,
                       properties |-> [position |-> <<note.position[1], note.position[2]>>,
                                       size |-> <<note.size[1], note.size[2]>>,
                                       locked |-> note.is_locked],
                       cat |-> note.style_id]],
     properties |-> [all_visible |-> TRUE, default_cat |-> value.default_style],
     categories |-> [id \in DOMAIN value.styles |->
                        [name |-> value.styles[id].name,
                         font |-> serialize_font(value.styles[id].font),
                         bgcolor_hsv |-> RgbToHsv(value.styles[id].bgcolor)]]]

\* Uuid::new_v4() is an id that nothing in the collection mentions.  Ids are
\* only compared for equality, so the least such id stands for all of them.
UsedNoteIds(self) == DOMAIN self.notes \cup DOMAIN self.deleted_notes

UsedStyleIds(self) ==
    DOMAIN self.styles \cup {self.default_style}
        \cup {self.notes[n].style_id : n \in DOMAIN self.notes}
        \cup {self.deleted_notes[n].style_id : n \in DOMAIN self.deleted_notes}

\* is_unsaved that does not look at the styles.
is_unsaved_without_styles(self) ==
    \/ self.is_dirty
    \/ \E n \in DOMAIN self.notes : NoteData_is_changed(self.notes[n])

is_unsaved(self) ==
    \/ self.is_dirty
    \/ \E n \in DOMAIN self.notes : NoteData_is_changed(self.notes[n])
    \/ \E s \in DOMAIN self.styles : NoteStyle_is_changed(self.styles[s])

get_notes_count(self) == Cardinality(DOMAIN self.notes)

get_styles_count(self) == Cardinality(DOMAIN self.styles)

try_get_note(self, note_id) ==
    IF note_id \in DOMAIN self.notes
    THEN [ok |-> TRUE, note |-> self.notes[note_id]]
    ELSE [ok |-> FALSE, err |-> "NoteNotFound"]

try_get_style(self, style_id) ==
    IF style_id \in DOMAIN self.styles
    THEN [ok |-> TRUE, style |-> self.styles[style_id]]
    ELSE [ok |-> FALSE, err |-> "StyleNotFound"]

\* get_style_names: the names of the styles in the order the map iterates.
get_style_names(self) ==
    [i \in 1..Len(self.style_keys) |-> self.styles[self.style_keys[i]].name]

try_get_default_style(self) ==
    IF self.default_style \in DOMAIN self.styles
    THEN [ok |-> TRUE, style |-> self.styles[self.default_style]]
    ELSE [ok |-> FALSE, err |-> "StyleNotFound"]

try_get_note_mut(self, note_id) ==
    IF note_id \in DOMAIN self.notes
    THEN [ok |-> TRUE, note |-> self.notes[note_id]]
    ELSE [ok |-> FALSE, err |-> "NoteNotFound"]

try_get_style_mut(self, style_id) ==
    IF style_id \in DOMAIN self.styles
    THEN [ok |-> TRUE, style |-> self.styles[style_id]]
    ELSE [ok |-> FALSE, err |-> "StyleNotFound"]

\* for_each_note_mut that visits the soft-deleted notes as well.
for_each_note_mut_visits_deleted(self, f) ==
    [self EXCEPT !.notes = [n \in DOMAIN self.notes |-> f[self.notes[n]]],
                 !.deleted_notes = [n \in DOMAIN self.deleted_notes |->
                                       [self.deleted_notes[n] EXCEPT !.is_visible = FALSE,
                                                                    !.is_locked = TRUE]]]

\* for_each_note_mut(f), f given as the function from a note of the
\* collection to the note that f leaves in its place.
for_each_note_mut(self, f) ==
    [self EXCEPT !.notes = [n \in DOMAIN self.notes |-> f[self.notes[n]]]]

commit_changes(self) ==
    Ret([self EXCEPT
            !.notes = [n \in DOMAIN self.notes |-> NoteData_commit(self.notes[n])],
            !.styles = [s \in DOMAIN self.styles |-> NoteStyle_commit(self.styles[s])],
            !.is_dirty = FALSE],
        "Unit", "")

\* new_note that marks the collection dirty.
new_note_marks_dirty(self, id, now) ==
    [self |-> [self EXCEPT !.notes = MapInsert(@, id, NoteData_new(self.default_style, now)),
                           !.is_dirty = TRUE],
     res |-> "Uuid", branch |-> "", id |-> id]

\* new_note: id is what Uuid::new_v4() gave, and it is the value returned.
new_note(self, id, now) ==
    [self |-> [self EXCEPT !.notes = MapInsert(@, id, NoteData_new(self.default_style, now))],
     res |-> "Uuid", branch |-> "", id |-> id]

\* delete_note that copies the note into deleted_notes and leaves it in notes.
delete_note_copies(self, note_id) ==
    IF note_id \in DOMAIN self.notes
    THEN Ret([self EXCEPT
                 !.is_dirty = TRUE,
                 !.deleted_notes = MapInsert(@, note_id, self.notes[note_id])],
             "Unit", "Some")
    ELSE Ret(self, "Unit", "None")

\* delete_note that forgets the dirty flag of the collection.
delete_note_clean(self, note_id) ==
    IF note_id \in DOMAIN self.notes
    THEN Ret([self EXCEPT
                 !.deleted_notes = MapInsert(@, note_id, self.notes[note_id]),
                 !.notes = MapRemove(@, note_id)],
             "Unit", "Some")
    ELSE Ret(self, "Unit", "None")

delete_note(self, note_id) ==
    IF note_id \in DOMAIN self.notes
    THEN Ret([self EXCEPT
                 !.is_dirty = TRUE,
                 !.deleted_notes = MapInsert(@, note_id, self.notes[note_id]),
                 !.notes = MapRemove(@, note_id)],
             "Unit", "Some")
    ELSE Ret(self, "Unit", "None")

\* try_restore_deleted_note that sets the dirty flag before it looks the id up.
try_restore_always_dirty(self, note_id) ==
    IF note_id \in DOMAIN self.deleted_notes
    THEN Ret([self EXCEPT
                 !.is_dirty = TRUE,
                 !.notes = MapInsert(@, note_id, self.deleted_notes[note_id]),
                 !.deleted_notes = MapRemove(@, note_id)],
             "Ok", "")
    ELSE Ret([self EXCEPT !.is_dirty = TRUE], "NoteNotFound", "")

\* try_restore_deleted_note that shows the note it restores.
try_restore_shows(self, note_id) ==
    IF note_id \in DOMAIN self.deleted_notes
    THEN Ret([self EXCEPT
                 !.is_dirty = TRUE,
                 !.notes = MapInsert(@, note_id,
                              [self.deleted_notes[note_id] EXCEPT !.is_visible = TRUE]),
                 !.deleted_notes = MapRemove(@, note_id)],
             "Ok", "")
    ELSE Ret(self, "NoteNotFound", "")

try_restore_deleted_note(self, note_id) ==
    IF note_id \in DOMAIN self.deleted_notes
    THEN Ret([self EXCEPT
                 !.is_dirty = TRUE,
                 !.notes = MapInsert(@, note_id, self.deleted_notes[note_id]),
                 !.deleted_notes = MapRemove(@, note_id)],
             "Ok", "")
    ELSE Ret(self, "NoteNotFound", "")

\* new_style that never looks at the default style.
new_style_hardcoded(self, name, id, keys) ==
    Ret([self EXCEPT
            !.styles = MapInsert(@, id, NoteStyle_new(name, Font_default, Color_WHITE)),
            !.style_keys = keys],
        "Uuid", "")

\* keys is the order in which the styles map iterates once id is inserted.
new_style(self, name, id, keys) ==
    LET source == try_get_default_style(self)
        value == IF source.ok
                 THEN NoteStyle_new(name, source.style.font, source.style.bgcolor)
                 ELSE NoteStyle_new(name, Font_default, Color_WHITE)
    IN Ret([self EXCEPT !.styles = MapInsert(@, id, value), !.style_keys = keys],
           "Uuid", "")

\* delete_style that refuses only when no style is left.
delete_style_min_one(self, style_id) ==
    IF get_styles_count(self) < 1
    THEN Ret(self, "DeleteLastStyle", "")
    ELSE IF style_id \in DOMAIN self.styles
    THEN LET remaining == SelectSeq2(self.style_keys, style_id)
             new_default ==
                 IF style_id = self.default_style
                 THEN (IF Len(remaining) > 0 THEN Head(remaining) ELSE NilUuid)
                 ELSE self.default_style
         IN Ret([self EXCEPT
                    !.styles = MapRemove(@, style_id),
                    !.style_keys = remaining,
                    !.is_dirty = TRUE,
                    !.default_style = new_default,
                    !.notes = [n \in DOMAIN self.notes |->
                                  IF self.notes[n].style_id = style_id
                                  THEN set_style(self.notes[n], new_default)
                                  ELSE self.notes[n]]],
                "Ok", IF style_id = self.default_style THEN "default" ELSE "other")
    ELSE Ret(self, "StyleNotFound", "")

\* delete_style that selects no other default style.
delete_style_keeps_default(self, style_id) ==
    IF get_styles_count(self) < 2
    THEN Ret(self, "DeleteLastStyle", "")
    ELSE IF style_id \in DOMAIN self.styles
    THEN Ret([self EXCEPT
                 !.styles = MapRemove(@, style_id),
                 !.style_keys = SelectSeq2(self.style_keys, style_id),
                 !.is_dirty = TRUE,
                 !.notes = [n \in DOMAIN self.notes |->
                               IF self.notes[n].style_id = style_id
                               THEN set_style(self.notes[n], self.default_style)
                               ELSE self.notes[n]]],
             "Ok", IF style_id = self.default_style THEN "default" ELSE "other")
    ELSE Ret(self, "StyleNotFound", "")

\* delete_style that removes the notes of the style instead of restyling them.
delete_style_drops_notes(self, style_id) ==
    IF get_styles_count(self) < 2
    THEN Ret(self, "DeleteLastStyle", "")
    ELSE IF style_id \in DOMAIN self.styles
    THEN LET remaining == SelectSeq2(self.style_keys, style_id)
             new_default ==
                 IF style_id = self.default_style
                 THEN (IF Len(remaining) > 0 THEN Head(remaining) ELSE NilUuid)
                 ELSE self.default_style
             kept == {n \in DOMAIN self.notes : self.notes[n].style_id /= style_id}
         IN Ret([self EXCEPT
                    !.styles = MapRemove(@, style_id),
                    !.style_keys = remaining,
                    !.is_dirty = TRUE,
                    !.default_style = new_default,
                    !.notes = [n \in kept |-> self.notes[n]]],
                "Ok", IF style_id = self.default_style THEN "default" ELSE "other")
    ELSE Ret(self, "StyleNotFound", "")

\* delete_style that looks the id up before it counts the styles.
delete_style_checks_id_first(self, style_id) ==
    IF style_id \notin DOMAIN self.styles
    THEN Ret(self, "StyleNotFound", "")
    ELSE IF get_styles_count(self) < 2
    THEN Ret(self, "DeleteLastStyle", "")
    ELSE LET remaining == SelectSeq2(self.style_keys, style_id)
             new_default ==
                 IF style_id = self.default_style THEN Head(remaining)
                 ELSE self.default_style
         IN Ret([self EXCEPT
                    !.styles = MapRemove(@, style_id),
                    !.style_keys = remaining,
                    !.is_dirty = TRUE,
                    !.default_style = new_default,
                    !.notes = [n \in DOMAIN self.notes |->
                                  IF self.notes[n].style_id = style_id
                                  THEN set_style(self.notes[n], new_default)
                                  ELSE self.notes[n]]],
                "Ok", IF style_id = self.default_style THEN "default" ELSE "other")

delete_style(self, style_id) ==
    IF get_styles_count(self) < 2
    THEN Ret(self, "DeleteLastStyle", "")
    ELSE IF style_id \in DOMAIN self.styles
    THEN LET remaining == SelectSeq2(self.style_keys, style_id)
             \* if default style is being deleted select another one as default
             new_default ==
                 IF style_id = self.default_style
                 THEN (IF Len(remaining) > 0 THEN Head(remaining) ELSE NilUuid)
                 ELSE self.default_style
         IN Ret([self EXCEPT
                    !.styles = MapRemove(@, style_id),
                    !.style_keys = remaining,
                    !.is_dirty = TRUE,
                    !.default_style = new_default,
                    \* replace all existing notes style if it is being deleted
                    !.notes = [n \in DOMAIN self.notes |->
                                  IF self.notes[n].style_id = style_id
                                  THEN set_style(self.notes[n], new_default)
                                  ELSE self.notes[n]]],
                "Ok", IF style_id = self.default_style THEN "default" ELSE "other")
    ELSE Ret(self, "StyleNotFound", "")

\* try_set_default_style_by_index that marks the collection before it looks
\* the index up.
try_set_default_style_dirty_first(self, style_index) ==
    IF style_index < Len(self.style_keys)
    THEN LET id == self.style_keys[style_index + 1] IN
         IF self.default_style /= id
         THEN Ret([self EXCEPT !.default_style = id, !.is_dirty = TRUE], "Ok", "")
         ELSE Ret(self, "Ok", "")
    ELSE Ret([self EXCEPT !.is_dirty = TRUE], "StyleIndexNotFound", "")

try_set_default_style_by_index(self, style_index) ==
    IF style_index < Len(self.style_keys)
    THEN LET id == self.style_keys[style_index + 1] IN
         IF self.default_style /= id
         THEN Ret([self EXCEPT !.default_style = id, !.is_dirty = TRUE], "Ok", "")
         ELSE Ret(self, "Ok", "")
    ELSE Ret(self, "StyleIndexNotFound", "")

\* try_set_note_style_by_index that looks the note up before the index.
try_set_note_style_note_first(self, note_id, style_index) ==
    IF note_id \in DOMAIN self.notes
    THEN IF style_index < Len(self.style_keys)
         THEN Ret([self EXCEPT
                      !.notes[note_id] = set_style(@, self.style_keys[style_index + 1])],
                  "Ok", "")
         ELSE Ret(self, "StyleIndexNotFound", "")
    ELSE Ret(self, "NoteNotFound", "")

try_set_note_style_by_index(self, note_id, style_index) ==
    IF style_index < Len(self.style_keys)
    THEN LET style_id == self.style_keys[style_index + 1] IN
         IF note_id \in DOMAIN self.notes
         THEN Ret([self EXCEPT !.notes[note_id] = set_style(@, style_id)], "Ok", "")
         ELSE Ret(self, "NoteNotFound", "")
    ELSE Ret(self, "StyleIndexNotFound", "")

\* try_get_note_style: the style of the live note, else that of the deleted
\* note, else the default style.
try_get_note_style(self, note_id) ==
    LET live == try_get_note(self, note_id)
        first == IF live.ok THEN try_get_style(self, live.note.style_id) ELSE live
        second ==
            IF first.ok THEN first
            ELSE IF note_id \in DOMAIN self.deleted_notes
                 THEN try_get_style(self, self.deleted_notes[note_id].style_id)
                 ELSE [ok |-> FALSE, err |-> "NoteNotFound"]
    IN IF second.ok THEN second ELSE try_get_default_style(self)

\* ------------------------------------------------------------ the program
\* The config store holds no notes; no task runs.
NoBlob == [empty |-> TRUE]
NoTask == [state |-> "none"]

\* StickyWindow::edit_context of a window that is not in edit mode, and
\* AppModel::edit_style while no dialog is open or being opened.
NoContext == [some |-> FALSE]
NoDialog == [state |-> "none"]

\* The application as it is while only the collection is looked at.
AppIdle ==
    /\ edit_context = EmptyMap
    /\ edit_style = NoDialog
    /\ config_notes = NoBlob
    /\ sticky_windows = EmptyMap
    /\ opening = {}
    /\ import_task = NoTask
    /\ export_task = NoTask
    /\ running = TRUE

\* The collection the application holds.
Self == Collection(notes, styles, style_keys, default_style, is_dirty, deleted_notes)

\* The collection becomes c.
Becomes(c) ==
    /\ notes' = c.notes
    /\ styles' = c.styles
    /\ style_keys' = c.style_keys
    /\ default_style' = c.default_style
    /\ is_dirty' = c.is_dirty
    /\ deleted_notes' = c.deleted_notes
    /\ UNCHANGED <<legacy_file, database, app_vars>>

\* The program starts with the collection c, built by op.
Starts(c, op) ==
    /\ notes = c.notes
    /\ styles = c.styles
    /\ style_keys = c.style_keys
    /\ default_style = c.default_style
    /\ is_dirty = c.is_dirty
    /\ deleted_notes = c.deleted_notes
    /\ last = Call(op, Ret(c, "Ok", ""))
    /\ legacy_file = NoFile
    /\ database = NoDatabase
    /\ AppIdle

InitDefault == \E now \in Times : Starts(NotesCollection_default(now), "default")

InitImport ==
    \E value \in LegacyDatabases :
        \E keys \in Orders(DOMAIN value.categories) :
            Starts(FromDatabase(value, keys), "try_import")

InitRead ==
    \E input \in Blobs :
        \E keys \in Orders(DOMAIN input.styles) :
            Starts(try_read(input, keys), "try_read")

Init == InitDefault \/ InitImport \/ InitRead

StyleIndexes == 0..MaxStyles

NewNote ==
    /\ NoteIds \ UsedNoteIds(Self) /= {}
    /\ \E now \in Times :
           \E ret \in {new_note(Self, Min(NoteIds \ UsedNoteIds(Self)), now)} :
               Becomes(ret.self) /\ last' = Call("new_note", ret)

DeleteNote ==
    \E note_id \in NoteIds :
        \E ret \in {delete_note(Self, note_id)} :
            Becomes(ret.self) /\ last' = Call("delete_note", ret)

RestoreDeletedNote ==
    \E note_id \in NoteIds :
        \E ret \in {try_restore_deleted_note(Self, note_id)} :
            Becomes(ret.self) /\ last' = Call("try_restore_deleted_note", ret)

NewStyle ==
    /\ StyleIds \ UsedStyleIds(Self) /= {}
    /\ LET id == Min(StyleIds \ UsedStyleIds(Self)) IN
       \E name \in StyleNames, keys \in Orders(DOMAIN styles \cup {id}) :
           \E ret \in {new_style(Self, name, id, keys)} :
               Becomes(ret.self) /\ last' = Call("new_style", ret)

DeleteStyle ==
    \E style_id \in StyleIds :
        \E ret \in {delete_style(Self, style_id)} :
            Becomes(ret.self) /\ last' = Call("delete_style", ret)

SetDefaultStyleByIndex ==
    \E style_index \in StyleIndexes :
        \E ret \in {try_set_default_style_by_index(Self, style_index)} :
            Becomes(ret.self) /\ last' = Call("try_set_default_style_by_index", ret)

SetNoteStyleByIndex ==
    \E note_id \in NoteIds, style_index \in StyleIndexes :
        \E ret \in {try_set_note_style_by_index(Self, note_id, style_index)} :
            Becomes(ret.self) /\ last' = Call("try_set_note_style_by_index", ret)

CommitChanges ==
    \E ret \in {commit_changes(Self)} :
        Becomes(ret.self) /\ last' = Call("commit_changes", ret)

Next ==
    \/ NewNote
    \/ DeleteNote
    \/ RestoreDeletedNote
    \/ NewStyle
    \/ DeleteStyle
    \/ SetDefaultStyleByIndex
    \/ SetNoteStyleByIndex
    \/ CommitChanges

Spec == Init /\ [][Next]_vars

\* ------------------------------------------------- editing notes and styles
\* The handlers of the application that change an entity through
\* try_get_note_mut, for_each_note_mut or try_get_style_mut.
Positions == {<<0, 0>>, <<5, 6>>}
Sizes == {<<DEF_NOTE_WIDTH, DEF_NOTE_HEIGHT>>, <<0, 7>>}
EditNames == {DEF_NOTE_STYLE_NAME, "Green"}
Fonts == {Font_default, [style |-> "Bold", size |-> "DEF_NOTE_FONT_SIZE"]}
Colors == {Color_WHITE, <<0, 1, 0>>}

on_window_position(self, note_id, left, top) ==
    LET found == try_get_note_mut(self, note_id) IN
    IF found.ok
    THEN Ret([self EXCEPT !.notes[note_id] = set_position(found.note, left, top)], "Ok", "")
    ELSE Ret(self, found.err, "")

on_window_resize(self, note_id, width, height) ==
    LET found == try_get_note_mut(self, note_id) IN
    IF found.ok
    THEN Ret([self EXCEPT !.notes[note_id] = set_size(found.note, width, height)], "Ok", "")
    ELSE Ret(self, found.err, "")

on_change_note_locking(self, note_id, is_on) ==
    LET found == try_get_note_mut(self, note_id) IN
    IF found.ok
    THEN Ret([self EXCEPT !.notes[note_id] = set_locking(found.note, is_on)], "Ok", "")
    ELSE Ret(self, found.err, "")

on_change_notes_visibility(self, on) ==
    LET f == [note \in {self.notes[n] : n \in DOMAIN self.notes} |->
                 set_visibility(note, on)] IN
    Ret(for_each_note_mut(self, f), "Unit", "")

edit_style_name(self, style_id, name) ==
    LET found == try_get_style_mut(self, style_id) IN
    IF found.ok
    THEN Ret([self EXCEPT !.styles[style_id] = set_name(found.style, name)], "Ok", "")
    ELSE Ret(self, found.err, "")

edit_style_font(self, style_id, font) ==
    LET found == try_get_style_mut(self, style_id) IN
    IF found.ok
    THEN Ret([self EXCEPT !.styles[style_id] = set_font(found.style, font)], "Ok", "")
    ELSE Ret(self, found.err, "")

edit_style_background(self, style_id, color) ==
    LET found == try_get_style_mut(self, style_id) IN
    IF found.ok
    THEN Ret([self EXCEPT !.styles[style_id] = set_background_color(found.style, color)],
             "Ok", "")
    ELSE Ret(self, found.err, "")

SetPosition ==
    \E note_id \in NoteIds, p \in Positions :
        \E ret \in {on_window_position(Self, note_id, p[1], p[2])} :
            Becomes(ret.self) /\ last' = Call("set_position", ret)

SetSize ==
    \E note_id \in NoteIds, z \in Sizes :
        \E ret \in {on_window_resize(Self, note_id, z[1], z[2])} :
            Becomes(ret.self) /\ last' = Call("set_size", ret)

SetLocking ==
    \E note_id \in NoteIds, is_on \in BOOLEAN :
        \E ret \in {on_change_note_locking(Self, note_id, is_on)} :
            Becomes(ret.self) /\ last' = Call("set_locking", ret)

SetVisibility ==
    \E on \in BOOLEAN :
        \E ret \in {on_change_notes_visibility(Self, on)} :
            Becomes(ret.self) /\ last' = Call("set_visibility", ret)

SetStyleName ==
    \E style_id \in StyleIds, name \in EditNames :
        \E ret \in {edit_style_name(Self, style_id, name)} :
            Becomes(ret.self) /\ last' = Call("set_name", ret)

SetStyleFont ==
    \E style_id \in StyleIds, font \in Fonts :
        \E ret \in {edit_style_font(Self, style_id, font)} :
            Becomes(ret.self) /\ last' = Call("set_font", ret)

SetStyleBackground ==
    \E style_id \in StyleIds, color \in Colors :
        \E ret \in {edit_style_background(Self, style_id, color)} :
            Becomes(ret.self) /\ last' = Call("set_background_color", ret)

InitEdit == InitDefault \/ InitRead

NextEdit ==
    \/ SetPosition
    \/ SetSize
    \/ SetLocking
    \/ SetVisibility
    \/ SetStyleName
    \/ SetStyleFont
    \/ SetStyleBackground
    \/ DeleteNote
    \/ RestoreDeletedNote
    \/ CommitChanges

\* The collection as the application edits its notes and styles.
SpecEdit == InitEdit /\ [][NextEdit]_vars

\* The styles as the application edits, creates, deletes and selects them,
\* while notes are deleted and restored.
NextStyles ==
    \/ SetStyleName
    \/ SetStyleFont
    \/ SetStyleBackground
    \/ NewStyle
    \/ DeleteStyle
    \/ SetDefaultStyleByIndex
    \/ SetNoteStyleByIndex
    \/ DeleteNote
    \/ RestoreDeletedNote

SpecStyles == InitEdit /\ [][NextStyles]_vars


\* ------------------------------------------------- the legacy file codec
LegacyTimeTexts == {UniqueTime, SkippedTime, "yesterday"}

\* Local::now(): the clock seldom shows a whole second.
Nows == {DateTime(CurrentTime, subsec) : subsec \in {0, 1}}

\* NaiveDateTime::parse_from_str(s, IMPORT_DATETIME_FORMAT)
NaiveDateTime_parse_from_str(s) ==
    IF s \in {UniqueTime, SkippedTime, CurrentTime}
    THEN [ok |-> TRUE, value |-> s] ELSE [ok |-> FALSE]

\* Local.from_local_datetime(tmp).single(): None for a wall-clock reading that
\* the local zone has not exactly once.
from_local_datetime_single(tmp) ==
    IF tmp = SkippedTime THEN [some |-> FALSE]
    ELSE [some |-> TRUE, value |-> DateTime(tmp, 0)]

deserialize_from_str(s, now) ==
    LET tmp == NaiveDateTime_parse_from_str(s)
        single == from_local_datetime_single(tmp.value)
    IN IF ~tmp.ok THEN [ok |-> FALSE]
       ELSE [ok |-> TRUE, value |-> IF single.some THEN single.value ELSE now]

\* DateTime::<Utc>::from_naive_utc_and_offset(tmp, Utc): the instant at which
\* the clocks of UTC show tmp.
from_naive_utc_and_offset(tmp) == [naive |-> tmp, subsec |-> 0, offset |-> "Utc"]

\* deserialize_from_str of notes/import.rs: local time, otherwise UTC.
import_deserialize_from_str(s) ==
    LET tmp == NaiveDateTime_parse_from_str(s)
        single == from_local_datetime_single(tmp.value)
    IN IF ~tmp.ok THEN [ok |-> FALSE]
       ELSE [ok |-> TRUE,
             value |-> IF single.some THEN single.value
                       ELSE from_naive_utc_and_offset(tmp.value)]

\* value.format(IMPORT_DATETIME_FORMAT): the pattern ends at the seconds.
serialize_to_str(value) == value.naive

PositionArrays == {<<>>, <<7>>, <<1, 2>>, <<1, 2, 3>>}
SizeArrays == {<<>>, <<9>>, <<3, 4>>, <<3, 4, 5>>}
LegacyFileNoteCounts == {0, 1}
LegacyFileCategoryCounts == {0, 1}

LegacyFileNote(uuid, text, position, size, cat) ==
    [uuid |-> uuid, body |-> "hi", last_modified |-> text,
     properties |-> [position |-> position, size |-> size, locked |-> TRUE],
     cat |-> cat]

\* The texts of notes in legacy files: plain, of two lines, outside ASCII.
Bodies == {"hi", "a\nb", "é"}

\* Files of two notes, in either order.
TwoNoteFiles ==
    {[exists |-> TRUE,
      json |-> [notes |-> <<[LegacyFileNote(u, UniqueTime, <<1, 2>>, <<3, 4>>, 1)
                                EXCEPT !.body = body],
                            LegacyFileNote(3 - u, UniqueTime, <<1, 2>>, <<3, 4>>, 1)>>,
                properties |-> [all_visible |-> FALSE, default_cat |-> 1],
                categories |-> [id \in 1..1 |-> LegacyCategory]]] :
        u \in 1..2, body \in Bodies}

\* Files of at most one note.
ShortFiles ==
    UNION {{[exists |-> TRUE,
             json |-> [notes |-> ns,
                       properties |-> [all_visible |-> FALSE, default_cat |-> d],
                       categories |-> [id \in 1..m |-> LegacyCategory]]] :
               ns \in {<<>>} \cup
                      (IF 1 \in LegacyFileNoteCounts
                       THEN {<<LegacyFileNote(1, text, position, size, cat)>> :
                                text \in LegacyTimeTexts, position \in PositionArrays,
                                size \in SizeArrays, cat \in (1..m) \cup {NilUuid}}
                       ELSE {}),
               d \in (1..m) \cup {NilUuid}} :
           m \in LegacyFileCategoryCounts}

\* The legacy files, as the JSON object they hold.
LegacyFiles == ShortFiles \cup TwoNoteFiles

\* NotesDatabase::try_import: serde_json::from_reader; now is what Local::now()
\* returns when deserialize_from_str falls back to it.
NotesDatabase_try_import(content, now) ==
    LET times == [i \in DOMAIN content.notes |->
                     deserialize_from_str(content.notes[i].last_modified, now)]
    IN IF \E i \in DOMAIN content.notes : ~times[i].ok
       THEN [ok |-> FALSE, err |-> "Parse"]
       ELSE [ok |-> TRUE,
             value |-> [content EXCEPT !.notes =
                           [i \in DOMAIN content.notes |->
                               [content.notes[i] EXCEPT !.last_modified = times[i].value]]]]

\* NotesDatabase::try_export: the single-line JSON of the database.
NotesDatabase_try_export(db) ==
    [db EXCEPT !.notes =
        [i \in DOMAIN db.notes |->
            [db.notes[i] EXCEPT !.last_modified = serialize_to_str(@)]]]

\* ---- the text that try_export writes
\* JsonFormat::pretty().ascii(true).indent(None).comma(", "): pretty() sets
\* the colon to ": ".
ExportFormat_no_ascii == [ascii |-> FALSE, indent |-> [some |-> FALSE], comma |-> ", ", colon |-> ": "]

ExportFormat == [ascii |-> TRUE, indent |-> [some |-> FALSE], comma |-> ", ", colon |-> ": "]

\* A character inside a JSON string.
JsonChar(fmt, ch) ==
    IF ch = "\n" THEN "\\n"
    ELSE IF ch = "\"" THEN "\\\""
    ELSE IF ch = "\\" THEN "\\\\"
    ELSE IF ch = "é" THEN (IF fmt.ascii THEN "\\u00e9" ELSE ch)
    ELSE ch

RECURSIVE JsonEscape(_, _)
JsonEscape(fmt, text) ==
    IF text = "" THEN ""
    ELSE JsonChar(fmt, SubSeq(text, 1, 1)) \o JsonEscape(fmt, SubSeq(text, 2, Len(text)))

JsonString(fmt, text) == "\"" \o JsonEscape(fmt, text) \o "\""

\* What follows an opening bracket or a comma, and what precedes a closing
\* bracket: a line break and the indentation, if there is one.
JsonBreak(fmt) == IF fmt.indent.some THEN "\n" \o fmt.indent.value ELSE ""

RECURSIVE JsonJoin(_, _)
JsonJoin(fmt, items) ==
    IF Len(items) = 0 THEN ""
    ELSE IF Len(items) = 1 THEN items[1]
    ELSE items[1] \o fmt.comma \o JsonBreak(fmt) \o JsonJoin(fmt, Tail(items))

JsonArray(fmt, items) ==
    IF Len(items) = 0 THEN "[]"
    ELSE "[" \o JsonBreak(fmt) \o JsonJoin(fmt, items) \o JsonBreak(fmt) \o "]"

\* An object of the fields in the order given: <<name, text of the value>>.
JsonObject(fmt, fields) ==
    IF Len(fields) = 0 THEN "{}"
    ELSE "{" \o JsonBreak(fmt)
         \o JsonJoin(fmt, [i \in DOMAIN fields |->
                              JsonString(fmt, fields[i][1]) \o fmt.colon \o fields[i][2]])
         \o JsonBreak(fmt) \o "}"

JsonBool(b) == IF b THEN "true" ELSE "false"
JsonUsize(n) == ToString(n)
\* an f32 that is a whole number
JsonF32(x) == ToString(x) \o ".0"
\* a Uuid is written as a string
JsonUuid(fmt, id) == JsonString(fmt, ToString(id))

\* #[derive(Serialize)]: the fields in the order of their declaration.
NoteProperties_serialize(fmt, p) ==
    JsonObject(fmt, <<
        <<"position", JsonArray(fmt, [i \in DOMAIN p.position |-> JsonUsize(p.position[i])])>>,
        <<"size", JsonArray(fmt, [i \in DOMAIN p.size |-> JsonUsize(p.size[i])])>>,
        <<"locked", JsonBool(p.locked)>> >>)

Note_serialize(fmt, note) ==
    JsonObject(fmt, <<
        <<"uuid", JsonUuid(fmt, note.uuid)>>,
        <<"body", JsonString(fmt, note.body)>>,
        <<"last_modified", JsonString(fmt, serialize_to_str(note.last_modified))>>,
        <<"properties", NoteProperties_serialize(fmt, note.properties)>>,
        <<"cat", JsonUuid(fmt, note.cat)>> >>)

GlobalProperties_serialize(fmt, p) ==
    JsonObject(fmt, <<
        <<"all_visible", JsonBool(p.all_visible)>>,
        <<"default_cat", JsonUuid(fmt, p.default_cat)>> >>)

CategoryProperties_serialize(fmt, cat) ==
    JsonObject(fmt, <<
        <<"name", JsonString(fmt, cat.name)>>,
        <<"bgcolor_hsv",
          JsonArray(fmt, [i \in DOMAIN cat.bgcolor_hsv |-> JsonF32(cat.bgcolor_hsv[i])])>>,
        <<"font", JsonString(fmt, cat.font)>> >>)

\* The bytes of try_export; keys is the order in which categories iterates.
try_export_bytes(db, keys) ==
    JsonObject(ExportFormat, <<
        <<"notes", JsonArray(ExportFormat,
                       [i \in DOMAIN db.notes |-> Note_serialize(ExportFormat, db.notes[i])])>>,
        <<"properties", GlobalProperties_serialize(ExportFormat, db.properties)>>,
        <<"categories",
          JsonObject(ExportFormat,
              [i \in DOMAIN keys |->
                  <<ToString(keys[i]),
                    CategoryProperties_serialize(ExportFormat, db.categories[keys[i]])>>])>> >>)

\* load a legacy file into a NotesDatabase
ParseLegacyFile ==
    /\ legacy_file.exists
    /\ \E now \in Nows :
         \E r \in {NotesDatabase_try_import(legacy_file.json, now)} :
            /\ database' = IF r.ok THEN [parsed |-> TRUE, ok |-> TRUE, value |-> r.value]
                           ELSE [parsed |-> TRUE, ok |-> FALSE]
            /\ last' = [op |-> "NotesDatabase::try_import",
                        res |-> IF r.ok THEN "Ok" ELSE r.err, branch |-> ""]
    /\ UNCHANGED <<notes, styles, style_keys, default_style, is_dirty, deleted_notes,
                   legacy_file, app_vars>>

\* write the NotesDatabase back as a legacy file
ExportLegacyFile ==
    /\ database.parsed
    /\ database.ok
    /\ legacy_file' = [exists |-> TRUE, json |-> NotesDatabase_try_export(database.value)]
    /\ last' = [op |-> "NotesDatabase::try_export", res |-> "Ok", branch |-> ""]
    /\ UNCHANGED <<notes, styles, style_keys, default_style, is_dirty, deleted_notes,
                   database, app_vars>>

\* NotesCollection::try_import: the parsed database becomes the collection; a
\* file that does not parse leaves the collection as it is.
ImportNotes ==
    /\ legacy_file.exists
    /\ \E now \in Nows :
         \E r \in {NotesDatabase_try_import(legacy_file.json, now)} :
            IF r.ok
            THEN \E keys \in Orders(DOMAIN r.value.categories) :
                    /\ Becomes(FromDatabase(r.value, keys))
                    /\ last' = [op |-> "try_import", res |-> "Ok", branch |-> ""]
            ELSE /\ last' = [op |-> "try_import", res |-> r.err, branch |-> ""]
                 /\ UNCHANGED <<notes, styles, style_keys, default_style, is_dirty,
                                deleted_notes, legacy_file, database, app_vars>>

InitCodec ==
    /\ \E now \in Times : \E c \in {NotesCollection_default(now)} :
          /\ notes = c.notes
          /\ styles = c.styles
          /\ style_keys = c.style_keys
          /\ default_style = c.default_style
          /\ is_dirty = c.is_dirty
          /\ deleted_notes = c.deleted_notes
          /\ last = Call("default", Ret(c, "Ok", ""))
    /\ legacy_file \in LegacyFiles
    /\ database = NoDatabase
    /\ AppIdle

NextCodec == ParseLegacyFile \/ ExportLegacyFile \/ ImportNotes

SpecCodec == InitCodec /\ [][NextCodec]_vars


\* ------------------------------------------------------ the text of notes
\* The texts an edit leaves in a note: a first line of 0..14 characters, all
\* ASCII or all two-byte, alone, ended by a line feed or followed by a second
\* line.
RECURSIVE Repeat(_, _)
Repeat(ch, k) == IF k = 0 THEN "" ELSE ch \o Repeat(ch, k - 1)

LineLengths == 0..(MAX_TITLE_CHARS + 2)
Contents ==
    {Repeat(ch, k) \o rest : ch \in {"a", "é"}, k \in LineLengths,
                             rest \in {"", "\n", "\nb"}}

\* on_finish_edit: the text of the editor becomes the content of the note.
on_finish_edit(self, note_id, text, now) ==
    LET found == try_get_note_mut(self, note_id) IN
    IF found.ok
    THEN Ret([self EXCEPT !.notes[note_id] = set_content(found.note, text, now)], "Ok", "")
    ELSE Ret(self, found.err, "")

SetContent ==
    \E note_id \in NoteIds, text \in Contents, now \in Times :
        \E ret \in {on_finish_edit(Self, note_id, text, now)} :
            Becomes(ret.self) /\ last' = Call("set_content", ret)

\* StickyWindowCreated: the window of a note is given the title of the note.
GetTitle ==
    \E note_id \in NoteIds :
        \E found \in {try_get_note(Self, note_id)} :
            /\ found.ok
            /\ last' = [op |-> "get_title", res |-> "str",
                        branch |-> NoteData_get_title(found.note).branch]
            /\ UNCHANGED <<notes, styles, style_keys, default_style, is_dirty,
                           deleted_notes, legacy_file, database, app_vars>>

NextTitle == SetContent \/ GetTitle \/ DeleteNote \/ RestoreDeletedNote \/ CommitChanges

SpecTitle == InitDefault /\ [][NextTitle]_vars

\* --------------------------------------------------------- the application
\* window::Id::unique(): the ids of the windows that may be open at a time.
MaxWindows == 2
WindowIds == 1..MaxWindows

is_default_collection(self) ==
    get_notes_count(self) <= 1 /\ get_styles_count(self) <= 1

\* config.notes when the application starts: nothing, a text that is no
\* collection, or a collection of 1 or 2 styles and no note, one note shown or
\* one note hidden.
StoredStyleCounts == {1, 2}
StoredNotes ==
    {EmptyMap} \cup
    {[n \in {1} |-> [BlobNote(1) EXCEPT !.is_visible = shown]] : shown \in BOOLEAN}

StoredTexts ==
    {NoBlob, [empty |-> FALSE, valid |-> FALSE]} \cup
    {[empty |-> FALSE, valid |-> TRUE,
      json |-> [notes |-> ns,
                styles |-> [id \in 1..m |-> BlobStyle],
                default_style |-> 1]] : ns \in StoredNotes, m \in StoredStyleCounts}

\* The orders in which the styles of the stored collection may iterate.
StoredKeys(config) ==
    IF ~config.empty /\ config.valid THEN Orders(DOMAIN config.json.styles) ELSE {<<>>}

\* config.import_file: not set, a legacy file of one hidden note, or a file
\* that does not parse.
ImportFile(text) ==
    [exists |-> TRUE,
     json |-> [notes |-> <<LegacyFileNote(1, text, <<1, 2>>, <<3, 4>>, 1)>>,
               properties |-> [all_visible |-> FALSE, default_cat |-> 1],
               categories |-> [id \in {1} |-> LegacyCategory]]]

ImportFiles == {NoFile, ImportFile(UniqueTime), ImportFile("yesterday")}

load_notes_or_default(config, keys, now) ==
    IF config.empty THEN NotesCollection_default(now)
    ELSE IF config.valid THEN try_read(config.json, keys)
    ELSE NotesCollection_default(now)

\* What may fail while the notes are saved: nothing, try_write, opening the
\* config store, tx.set or tx.commit.
SaveFailures == {"none", "try_write", "Config::new", "tx.set", "tx.commit"}

\* save_notes that clears the dirty bits before it writes.
save_notes_commits_first(self, config, failure) ==
    [self |-> commit_changes(self).self,
     config |-> IF failure = "none"
                THEN [empty |-> FALSE, valid |-> TRUE, json |-> try_write(self)]
                ELSE config,
     res |-> IF failure = "none" THEN "Ok" ELSE failure]

\* save_notes: every step before commit_changes returns early on failure.
save_notes(self, config, failure) ==
    IF failure = "none"
    THEN [self |-> commit_changes(self).self,
          config |-> [empty |-> FALSE, valid |-> TRUE, json |-> try_write(self)],
          res |-> "Ok"]
    ELSE [self |-> self, config |-> config, res |-> failure]

on_quit(self, config, failure) ==
    IF is_unsaved(self)
    THEN LET r == save_notes(self, config, failure)
         IN [self |-> r.self, config |-> r.config, res |-> r.res, branch |-> "save"]
    ELSE [self |-> self, config |-> config, res |-> "Ok", branch |-> "skip"]

\* The ids in use: of the windows shown and of those being opened.
UsedWindows(windows, pending) == DOMAIN windows \cup {o.window : o \in pending}

\* The k least elements of S.
Lowest(S, k) == {x \in S : Cardinality({y \in S : y < x}) < k}

\* spawn_sticky_window for each note of ns, with ids not in used: the tasks
\* that will send StickyWindowCreated(window, note).
Spawned(ns, used) ==
    LET ids == Lowest(WindowIds \ used, Cardinality(ns))
    IN {[window |-> w, note |-> n] : w \in ids, n \in ns} \cap
       {o \in [window : ids, note : ns] :
           Cardinality({y \in ids : y < o.window}) = Cardinality({y \in ns : y < o.note})}

CanSpawn(ns, used) == Cardinality(WindowIds \ used) >= Cardinality(ns)

\* spawn_sticky_windows: the windows shown are closed and a window is opened
\* for every note of the collection.
spawn_sticky_windows(self, pending) ==
    [sticky_windows |-> EmptyMap,
     opening |-> pending \cup Spawned(DOMAIN self.notes, UsedWindows(EmptyMap, pending))]

close_sticky_windows == [sticky_windows |-> EmptyMap]

\* The collection becomes c; the rest of the state is set by the action.
Installs(c) ==
    /\ notes' = c.notes
    /\ styles' = c.styles
    /\ style_keys' = c.style_keys
    /\ default_style' = c.default_style
    /\ is_dirty' = c.is_dirty
    /\ deleted_notes' = c.deleted_notes

Collection_vars == <<notes, styles, style_keys, default_style, is_dirty, deleted_notes>>

\* AppModel::init: the notes are loaded, a window is opened for each and the
\* legacy import is scheduled for a collection that looks like the default.
InitApp ==
    \E config \in StoredTexts, file \in ImportFiles, now \in Times :
        \E keys \in StoredKeys(config) :
            \E c \in {load_notes_or_default(config, keys, now)} :
                /\ notes = c.notes
                /\ styles = c.styles
                /\ style_keys = c.style_keys
                /\ default_style = c.default_style
                /\ is_dirty = c.is_dirty
                /\ deleted_notes = c.deleted_notes
                /\ config_notes = config
                /\ legacy_file = file
                /\ database = NoDatabase
                /\ sticky_windows = EmptyMap
                /\ edit_context = EmptyMap
                /\ edit_style = NoDialog
                /\ opening = spawn_sticky_windows(c, {}).opening
                /\ import_task = IF is_default_collection(c)
                                 THEN [state |-> "running"] ELSE NoTask
                /\ export_task = NoTask
                /\ running = TRUE
                /\ last = [op |-> "init", res |-> "Ok",
                           branch |-> IF ~config.empty /\ config.valid
                                      THEN "try_read" ELSE "default"]

\* Message::StickyWindowCreated(id, note_id)
StickyWindowCreated ==
    /\ running
    /\ \E o \in opening :
          /\ sticky_windows' = MapInsert(sticky_windows, o.window, o.note)
          /\ edit_context' = MapInsert(edit_context, o.window, NoContext)
          /\ opening' = opening \ {o}
    /\ last' = [op |-> "StickyWindowCreated", res |-> "Ok", branch |-> ""]
    /\ UNCHANGED <<Collection_vars, legacy_file, database, config_notes, import_task,
                   export_task, running, edit_style>>

\* Message::NoteNew: on_new_note_window
NoteNew ==
    /\ running
    /\ NoteIds \ UsedNoteIds(Self) /= {}
    /\ CanSpawn({0}, UsedWindows(sticky_windows, opening))
    /\ \E now \in Times :
          \E ret \in {new_note(Self, Min(NoteIds \ UsedNoteIds(Self)), now)} :
             /\ Installs(ret.self)
             /\ opening' = opening \cup
                           Spawned({ret.id}, UsedWindows(sticky_windows, opening))
             /\ last' = [op |-> "NoteNew", res |-> "Ok", branch |-> ""]
    /\ UNCHANGED <<legacy_file, database, config_notes, sticky_windows, import_task,
                   export_task, running,
                   edit_context, edit_style>>

\* Message::NoteDelete(id) from a sticky window: on_delete_note
NoteDelete ==
    /\ running
    /\ \E id \in DOMAIN sticky_windows :
          \E ret \in {delete_note(Self, sticky_windows[id])} :
             /\ Installs(ret.self)
             /\ sticky_windows' = MapRemove(sticky_windows, id)
             /\ edit_context' = MapRemove(edit_context, id)
             /\ last' = [op |-> "NoteDelete", res |-> "Ok", branch |-> ret.branch]
    /\ UNCHANGED <<legacy_file, database, config_notes, opening, import_task,
                   export_task, running, edit_style>>

\* Message::NoteRestore(note_id): on_restore_note
NoteRestore ==
    /\ running
    /\ CanSpawn({0}, UsedWindows(sticky_windows, opening))
    /\ \E note_id \in NoteIds :
          \E ret \in {try_restore_deleted_note(Self, note_id)} :
             /\ Installs(ret.self)
             /\ opening' = IF ret.res = "Ok"
                           THEN opening \cup
                                Spawned({note_id}, UsedWindows(sticky_windows, opening))
                           ELSE opening
             /\ last' = [op |-> "NoteRestore", res |-> ret.res, branch |-> ""]
    /\ UNCHANGED <<legacy_file, database, config_notes, sticky_windows, import_task,
                   export_task, running,
                   edit_context, edit_style>>

\* Message::SetAllVisible(on): on_change_notes_visibility
SetAllVisible ==
    /\ running
    /\ \E on \in BOOLEAN :
          \E ret \in {on_change_notes_visibility(Self, on)} :
             /\ Installs(ret.self)
             /\ IF on
                THEN /\ CanSpawn(DOMAIN notes, UsedWindows(EmptyMap, opening))
                     /\ sticky_windows' =
                            spawn_sticky_windows(ret.self, opening).sticky_windows
                     /\ opening' = spawn_sticky_windows(ret.self, opening).opening
                ELSE /\ sticky_windows' = close_sticky_windows.sticky_windows
                     /\ opening' = opening
             /\ edit_context' = EmptyMap
             /\ last' = [op |-> "SetAllVisible", res |-> "Ok",
                         branch |-> IF on THEN "show" ELSE "hide"]
    /\ UNCHANGED <<legacy_file, database, config_notes, import_task, export_task,
                   running, edit_style>>

\* Message::LockAll
LockAllNotes ==
    /\ running
    /\ Installs(for_each_note_mut(Self,
                    [note \in {notes[n] : n \in DOMAIN notes} |-> set_locking(note, TRUE)]))
    /\ last' = [op |-> "LockAll", res |-> "Ok", branch |-> ""]
    /\ UNCHANGED <<legacy_file, database, app_vars>>

\* Message::SaveNotes
SaveNotes ==
    /\ running
    /\ \E failure \in SaveFailures :
          \E ret \in {save_notes(Self, config_notes, failure)} :
             /\ Installs(ret.self)
             /\ config_notes' = ret.config
             /\ last' = [op |-> "SaveNotes", res |-> ret.res, branch |-> "save"]
    /\ UNCHANGED <<legacy_file, database, sticky_windows, opening, import_task,
                   export_task, running,
                   edit_context, edit_style>>

\* Message::Quit: on_quit, then the application exits.
Quit ==
    /\ running
    /\ \E failure \in SaveFailures :
          \E ret \in {on_quit(Self, config_notes, failure)} :
             /\ Installs(ret.self)
             /\ config_notes' = ret.config
             /\ last' = [op |-> "Quit", res |-> ret.res, branch |-> ret.branch]
    /\ running' = FALSE
    /\ UNCHANGED <<legacy_file, database, sticky_windows, opening, import_task,
                   export_task, edit_context, edit_style>>

\* Message::LoadNotes, once the configuration held by the model has caught
\* up with the store.
LoadNotes ==
    /\ running
    /\ \E now \in Times, keys \in StoredKeys(config_notes) :
          Installs(load_notes_or_default(config_notes, keys, now))
    /\ last' = [op |-> "LoadNotes", res |-> "Ok", branch |-> ""]
    /\ UNCHANGED <<legacy_file, database, app_vars>>

\* Message::ImportNotes: the import task is started (one at a time here).
StartImport ==
    /\ running
    /\ import_task = NoTask
    /\ import_task' = [state |-> "running"]
    /\ last' = [op |-> "ImportNotes", res |-> "Ok", branch |-> ""]
    /\ UNCHANGED <<Collection_vars, legacy_file, database, config_notes, sticky_windows,
                   opening, export_task, running,
                   edit_context, edit_style>>

\* import_notes: the task reads and converts the file and leaves the message
\* LoadNotesCompleted(imported) or LoadNotesFailed.
ImportTaskEnds ==
    /\ running
    /\ import_task.state = "running"
    /\ IF ~legacy_file.exists
       THEN import_task' = [state |-> "failed"]
       ELSE \E now \in Nows :
               \E r \in {NotesDatabase_try_import(legacy_file.json, now)} :
                  IF r.ok
                  THEN \E keys \in Orders(DOMAIN r.value.categories) :
                          import_task' = [state |-> "completed",
                                          imported |-> FromDatabase(r.value, keys)]
                  ELSE import_task' = [state |-> "failed"]
    /\ last' = [op |-> "import_notes", res |-> import_task'.state, branch |-> ""]
    /\ UNCHANGED <<Collection_vars, legacy_file, database, config_notes, sticky_windows,
                   opening, export_task, running,
                   edit_context, edit_style>>

\* Message::LoadNotesCompleted(imported)
LoadNotesCompleted ==
    /\ running
    /\ import_task.state = "completed"
    /\ CanSpawn(DOMAIN import_task.imported.notes, UsedWindows(EmptyMap, opening))
    /\ Installs(import_task.imported)
    /\ sticky_windows' = spawn_sticky_windows(import_task.imported, opening).sticky_windows
    /\ opening' = spawn_sticky_windows(import_task.imported, opening).opening
    /\ edit_context' = EmptyMap
    /\ import_task' = NoTask
    /\ last' = [op |-> "LoadNotesCompleted", res |-> "Ok", branch |-> ""]
    /\ UNCHANGED <<legacy_file, database, config_notes, export_task, running, edit_style>>

\* Message::LoadNotesFailed(msg)
LoadNotesFailed ==
    /\ running
    /\ import_task.state = "failed"
    /\ import_task' = NoTask
    /\ last' = [op |-> "LoadNotesFailed", res |-> "Ok", branch |-> ""]
    /\ UNCHANGED <<Collection_vars, legacy_file, database, config_notes, sticky_windows,
                   opening, export_task, running,
                   edit_context, edit_style>>

\* Message::ExportNotes: the export task is given a clone of the collection.
StartExport ==
    /\ running
    /\ export_task = NoTask
    /\ export_task' = [state |-> "running", notes |-> Self]
    /\ last' = [op |-> "ExportNotes", res |-> "Ok", branch |-> ""]
    /\ UNCHANGED <<Collection_vars, legacy_file, database, config_notes, sticky_windows,
                   opening, import_task, running,
                   edit_context, edit_style>>

\* export_notes that writes the collection of the model as it is when the
\* task ends.
export_notes_of_model(task, self, order) ==
    NotesDatabase_try_export(ToDatabase(self, order))

\* export_notes: what the task writes, from the collection it was given.
export_notes(task, self, order) ==
    NotesDatabase_try_export(ToDatabase(task.notes, order))

\* The export task ends: the file is written unless no file is set; the
\* messages ExportNotesCompleted and ExportNotesFailed change nothing.
ExportTaskEnds ==
    /\ running
    /\ export_task.state = "running"
    /\ IF ~legacy_file.exists
       THEN /\ legacy_file' = legacy_file
            /\ last' = [op |-> "export_notes", res |-> "failed", branch |-> ""]
       ELSE /\ \E order \in Orders(DOMAIN export_task.notes.notes) :
                  legacy_file' = [exists |-> TRUE,
                                  json |-> export_notes(export_task, Self, order)]
            /\ last' = [op |-> "export_notes", res |-> "completed", branch |-> ""]
    /\ export_task' = NoTask
    /\ UNCHANGED <<Collection_vars, database, config_notes, sticky_windows, opening,
                   import_task, running,
                   edit_context, edit_style>>

\* The editor of a sticky window.  edit_context of a window is None (NoContext)
\* or holds the text being edited.
EditTexts == {"", "note"}

\* What Message::Edit carries: an action of the text editor.  An edit leaves
\* the text it produces; a move of the cursor leaves the text as it is.
EditActions == {[kind |-> "Move"]} \cup {[kind |-> "Edit", text |-> t] : t \in EditTexts}

perform(content, action) == IF action.kind = "Edit" THEN action.text ELSE content

\* finish_edit that reads the text and keeps the context.
finish_edit_keeps_context(context) ==
    IF context.some
    THEN [context |-> context, ok |-> TRUE, res |-> "Ok", text |-> context.content]
    ELSE [context |-> context, ok |-> FALSE, res |-> "EditingIsOff"]

start_edit(context, init_content) ==
    IF context.some
    THEN [context |-> context, ok |-> FALSE, res |-> "AlreadyEditing"]
    ELSE [context |-> [some |-> TRUE, content |-> init_content], ok |-> TRUE, res |-> "Ok"]

finish_edit(context) ==
    IF context.some
    THEN [context |-> NoContext, ok |-> TRUE, res |-> "Ok", text |-> context.content]
    ELSE [context |-> NoContext, ok |-> FALSE, res |-> "EditingIsOff"]

do_edit_action(context, action) ==
    IF context.some
    THEN [context |-> [context EXCEPT !.content = perform(context.content, action)],
          ok |-> TRUE, res |-> "Ok"]
    ELSE [context |-> context, ok |-> FALSE, res |-> "EditingIsOff"]

\* Message::NoteEdit(id, is_on): on_start_edit or on_finish_edit for the window id.
\* branch names the method of the window that was called, if one was.
NoteEdit ==
    /\ running
    /\ \E id \in WindowIds, is_on \in BOOLEAN, now \in Times :
          IF id \notin DOMAIN sticky_windows
          THEN /\ last' = [op |-> "NoteEdit", res |-> "WindowNotFound", branch |-> "",
                           window |-> id, is_on |-> is_on]
               /\ UNCHANGED <<Collection_vars, edit_context>>
          ELSE IF is_on
          THEN LET found == try_get_note(Self, sticky_windows[id]) IN
               IF found.ok
               THEN \E r \in {start_edit(edit_context[id], found.note.content)} :
                       /\ edit_context' = [edit_context EXCEPT ![id] = r.context]
                       /\ last' = [op |-> "NoteEdit", res |-> r.res, branch |-> "start_edit",
                                   window |-> id, is_on |-> is_on]
                       /\ UNCHANGED Collection_vars
               ELSE /\ last' = [op |-> "NoteEdit", res |-> found.err, branch |-> "",
                                window |-> id, is_on |-> is_on]
                    /\ UNCHANGED <<Collection_vars, edit_context>>
          ELSE LET found == try_get_note_mut(Self, sticky_windows[id]) IN
               IF found.ok
               THEN \E r \in {finish_edit(edit_context[id])} :
                       /\ edit_context' = [edit_context EXCEPT ![id] = r.context]
                       /\ IF r.ok
                          THEN Installs(on_finish_edit(Self, sticky_windows[id],
                                                       r.text, now).self)
                          ELSE UNCHANGED Collection_vars
                       /\ last' = [op |-> "NoteEdit", res |-> r.res, branch |-> "finish_edit",
                                   window |-> id, is_on |-> is_on]
               ELSE /\ last' = [op |-> "NoteEdit", res |-> found.err, branch |-> "",
                                window |-> id, is_on |-> is_on]
                    /\ UNCHANGED <<Collection_vars, edit_context>>
    /\ UNCHANGED <<legacy_file, database, config_notes, sticky_windows, opening,
                   import_task, export_task, running, edit_style>>

\* Message::Edit(window_id, action): the action goes to the editor of the window.
Edit ==
    /\ running
    /\ \E window_id \in WindowIds, action \in EditActions :
          IF window_id \in DOMAIN sticky_windows
          THEN \E r \in {do_edit_action(edit_context[window_id], action)} :
                  /\ edit_context' = [edit_context EXCEPT ![window_id] = r.context]
                  /\ last' = [op |-> "Edit", res |-> r.res, branch |-> "do_edit_action",
                              window |-> window_id]
          ELSE /\ last' = [op |-> "Edit", res |-> "WindowNotFound", branch |-> "",
                           window |-> window_id]
               /\ UNCHANGED edit_context
    /\ UNCHANGED <<Collection_vars, legacy_file, database, config_notes, sticky_windows,
                   opening, import_task, export_task, running, edit_style>>

\* on_escape: the focused window, if it is a sticky window, leaves the editor
\* and the text is dropped.
Escape ==
    /\ running
    /\ \E focused \in WindowIds :
          IF focused \in DOMAIN sticky_windows
          THEN \E r \in {finish_edit(edit_context[focused])} :
                  /\ edit_context' = [edit_context EXCEPT ![focused] = r.context]
                  /\ last' = [op |-> "Escape", res |-> r.res, branch |-> "finish_edit",
                              window |-> focused]
          ELSE /\ last' = [op |-> "Escape", res |-> "Ok", branch |-> "",
                           window |-> focused]
               /\ UNCHANGED edit_context
    /\ UNCHANGED <<Collection_vars, legacy_file, database, config_notes, sticky_windows,
                   opening, import_task, export_task, running, edit_style>>

\* on_style_updated: the name, the font and the color of the dialog are set.
on_style_updated(self, style_id, name, font, bgcolor) ==
    LET found == try_get_style_mut(self, style_id) IN
    IF found.ok
    THEN Ret([self EXCEPT
                 !.styles[style_id] =
                     set_background_color(set_font(set_name(found.style, name), font), bgcolor)],
             "Ok", "")
    ELSE Ret(self, found.err, "")

\* Message::StyleNew: on_new_style makes a style and opens the dialog window
\* for it (one dialog at a time here); by records the message that asked.
StyleNew ==
    /\ running
    /\ edit_style = NoDialog
    /\ StyleIds \ UsedStyleIds(Self) /= {}
    /\ LET id == Min(StyleIds \ UsedStyleIds(Self)) IN
       \E keys \in Orders(DOMAIN styles \cup {id}) :
           \E ret \in {new_style(Self, "new-style-name-" \o ToString(get_styles_count(Self)),
                                 id, keys)} :
               /\ Installs(ret.self)
               /\ edit_style' = [state |-> "opening", id |-> id, by |-> "StyleNew"]
    /\ last' = [op |-> "StyleNew", res |-> "Ok", branch |-> ""]
    /\ UNCHANGED <<legacy_file, database, config_notes, sticky_windows, opening,
                   import_task, export_task, running, edit_context>>

\* Message::StyleEdit(style_id): spawn_edit_style_window
StyleEdit ==
    /\ running
    /\ edit_style = NoDialog
    /\ \E style_id \in DOMAIN styles :
          edit_style' = [state |-> "opening", id |-> style_id, by |-> "StyleEdit"]
    /\ last' = [op |-> "StyleEdit", res |-> "Ok", branch |-> ""]
    /\ UNCHANGED <<Collection_vars, legacy_file, database, config_notes, sticky_windows,
                   opening, import_task, export_task, running, edit_context>>

\* Message::StyleDelete(style_id): on_delete_style
StyleDelete ==
    /\ running
    /\ \E style_id \in DOMAIN styles :
          \E ret \in {delete_style(Self, style_id)} :
             /\ Installs(ret.self)
             /\ last' = [op |-> "StyleDelete", res |-> ret.res, branch |-> ret.branch]
    /\ UNCHANGED <<legacy_file, database, app_vars>>

\* Message::EditStyleWindowCreated(window_id, style_id)
EditStyleWindowCreated ==
    /\ running
    /\ edit_style.state = "opening"
    /\ IF try_get_style(Self, edit_style.id).ok
       THEN /\ edit_style' = [edit_style EXCEPT !.state = "open"]
            /\ last' = [op |-> "EditStyleWindowCreated", res |-> "Ok", branch |-> ""]
       ELSE /\ edit_style' = NoDialog
            /\ last' = [op |-> "EditStyleWindowCreated", res |-> "StyleNotFound",
                        branch |-> ""]
    /\ UNCHANGED <<Collection_vars, legacy_file, database, config_notes, sticky_windows,
                   opening, import_task, export_task, running, edit_context>>

\* Message::EditStyleUpdate: the style takes what the dialog holds.
EditStyleUpdate ==
    /\ running
    /\ edit_style.state = "open"
    /\ \E name \in EditNames, font \in Fonts, bgcolor \in Colors :
          \E ret \in {on_style_updated(Self, edit_style.id, name, font, bgcolor)} :
             /\ Installs(ret.self)
             /\ last' = [op |-> "EditStyleUpdate", res |-> ret.res, branch |-> ""]
    /\ edit_style' = NoDialog
    /\ UNCHANGED <<legacy_file, database, config_notes, sticky_windows, opening,
                   import_task, export_task, running, edit_context>>

\* Message::EditStyleCancel: the style of the dialog is deleted.
EditStyleCancel ==
    /\ running
    /\ edit_style.state = "open"
    /\ \E ret \in {delete_style(Self, edit_style.id)} :
          /\ Installs(ret.self)
          /\ last' = [op |-> "EditStyleCancel", res |-> ret.res, branch |-> edit_style.by]
    /\ edit_style' = NoDialog
    /\ UNCHANGED <<legacy_file, database, config_notes, sticky_windows, opening,
                   import_task, export_task, running, edit_context>>

\* The windows of the notes: the notes are created, deleted, restored, shown,
\* hidden, loaded again and imported; nothing is saved or exported.
NextWindows ==
    \/ StickyWindowCreated
    \/ NoteNew
    \/ NoteDelete
    \/ NoteRestore
    \/ SetAllVisible
    \/ LoadNotes
    \/ StartImport
    \/ ImportTaskEnds
    \/ LoadNotesCompleted
    \/ LoadNotesFailed

SpecWindows == InitApp /\ [][NextWindows]_vars

\* The dialog that edits a style: opened for a new or an existing style,
\* confirmed or cancelled, while styles are deleted.
NextDialog ==
    \/ StyleNew
    \/ StyleEdit
    \/ StyleDelete
    \/ EditStyleWindowCreated
    \/ EditStyleUpdate
    \/ EditStyleCancel

SpecDialog == InitApp /\ [][NextDialog]_vars

\* Editing in the sticky windows while windows open and close and notes are
\* deleted and restored.
NextEditing ==
    \/ StickyWindowCreated
    \/ NoteDelete
    \/ NoteRestore
    \/ SetAllVisible
    \/ NoteEdit
    \/ Edit
    \/ Escape

SpecEditing == InitApp /\ [][NextEditing]_vars

\* Saving: the notes are changed, saved, loaded again, and the application
\* quits.
NextSave ==
    \/ StickyWindowCreated
    \/ NoteDelete
    \/ SetAllVisible
    \/ LockAllNotes
    \/ SaveNotes
    \/ Quit
    \/ LoadNotes

SpecSave == InitApp /\ [][NextSave]_vars

\* The background tasks: import and export run while the notes are changed.
NextTasks ==
    \/ SetAllVisible
    \/ LockAllNotes
    \/ StartImport
    \/ ImportTaskEnds
    \/ LoadNotesCompleted
    \/ LoadNotesFailed
    \/ StartExport
    \/ ExportTaskEnds

SpecTasks == InitApp /\ [][NextTasks]_vars

\* ================================================================ claims
\* The ids a call may be given: the ids of the model and the nil uuid.
AnyNoteId == NoteIds \cup {NilUuid}
AnyStyleId == StyleIds \cup {NilUuid}

InExactlyOne(self, id) == (id \in DOMAIN self.notes) /= (id \in DOMAIN self.deleted_notes)

\* C1: the key sets of notes and deleted_notes are disjoint in every reachable
\* state, and delete_note and try_restore_deleted_note leave every id of a
\* note in exactly one of the two maps.
C1_DisjointKeys ==
    /\ DOMAIN notes \cap DOMAIN deleted_notes = {}
    /\ \A id \in UsedNoteIds(Self) :
           /\ InExactlyOne(delete_note(Self, id).self, id)
           /\ InExactlyOne(try_restore_deleted_note(Self, id).self, id)

C1_Witness ==
    /\ last.op = "delete_note"
    /\ last.branch = "Some"
    /\ DOMAIN deleted_notes /= {}

\* C2: default_style is a key of styles in every reachable state, the
\* collections returned by try_read included.
C2_DefaultStyleResolves == default_style \in DOMAIN styles

\* C3: the styles map is never empty: get_styles_count() >= 1 in every
\* reachable state, the collections returned by try_read included.
C3_StylesNeverEmpty == get_styles_count(Self) >= 1

\* C4: on a collection of exactly one style delete_style(id) returns
\* DeleteLastStyle for every id and leaves the collection as it was.
C4_DeleteLastStyle ==
    get_styles_count(Self) = 1 =>
        \A id \in AnyStyleId :
            /\ delete_style(Self, id).res = "DeleteLastStyle"
            /\ delete_style(Self, id).self = Self

C4_Witness ==
    /\ last.op = "delete_style"
    /\ last.res = "DeleteLastStyle"
    /\ get_styles_count(Self) = 1

\* C5 as stated: after delete_style returned Ok for the default style,
\* try_get_default_style() succeeds and the style of every live note is a key
\* of styles.
C5_NoDanglingAfterDelete ==
    (last.op = "delete_style" /\ last.res = "Ok" /\ last.branch = "default") =>
        /\ try_get_default_style(Self).ok
        /\ \A n \in DOMAIN notes : notes[n].style_id \in DOMAIN styles

\* C5 as amended: when delete_style(id) returns Ok for the default style id,
\* try_get_default_style() succeeds afterwards, no live note has style id any
\* more, every live note that had it has the new default style, and every
\* other live note is as it was.
C5_NoNoteKeepsDeletedStyle ==
    \A id \in StyleIds :
        LET ret == delete_style(Self, id) IN
        (ret.res = "Ok" /\ id = default_style) =>
            /\ try_get_default_style(ret.self).ok
            /\ DOMAIN ret.self.notes = DOMAIN notes
            /\ \A n \in DOMAIN notes :
                   /\ ret.self.notes[n].style_id /= id
                   /\ notes[n].style_id = id =>
                          ret.self.notes[n].style_id = ret.self.default_style
                   /\ notes[n].style_id /= id => ret.self.notes[n] = notes[n]

C5_Witness ==
    /\ last.op = "delete_style"
    /\ last.res = "Ok"
    /\ last.branch = "default"
    /\ \E n \in DOMAIN notes : notes[n].style_id = default_style /\ notes[n].is_dirty

\* The style try_get_note_style is to return: that of the live note when it
\* resolves, else that of the deleted note when it resolves, else the default.
ThreeTierStyleId(note_id) ==
    IF note_id \in DOMAIN notes /\ notes[note_id].style_id \in DOMAIN styles
    THEN notes[note_id].style_id
    ELSE IF note_id \in DOMAIN deleted_notes
            /\ deleted_notes[note_id].style_id \in DOMAIN styles
    THEN deleted_notes[note_id].style_id
    ELSE default_style

\* C6: while at least one style exists try_get_note_style(note_id) returns no
\* error for any note_id, and returns the style of the three-tier fallback.
C6_NoteStyleNeverFails ==
    get_styles_count(Self) >= 1 =>
        \A note_id \in AnyNoteId :
            /\ try_get_note_style(Self, note_id).ok
            /\ try_get_note_style(Self, note_id).style = styles[ThreeTierStyleId(note_id)]

\* One step of a note's lifecycle, for every note id.
C7_Step ==
    \A id \in NoteIds :
        /\ (id \in DOMAIN notes /\ id \notin DOMAIN notes') =>
               (id \in DOMAIN deleted_notes' /\ last'.op = "delete_note")
        /\ (id \in DOMAIN deleted_notes /\ id \notin DOMAIN deleted_notes') =>
               (id \in DOMAIN notes' /\ last'.op = "try_restore_deleted_note")
        /\ (id \in DOMAIN notes \cup DOMAIN deleted_notes) =>
               (id \in DOMAIN notes' \cup DOMAIN deleted_notes')

\* C7: a note id leaves notes only into deleted_notes and only by delete_note,
\* leaves deleted_notes only into notes and only by try_restore_deleted_note,
\* and no operation removes an id from both maps, so the union of the two key
\* sets never shrinks.
C7_Lifecycle == [][C7_Step]_vars

C7_Witness ==
    /\ last.op = "try_restore_deleted_note"
    /\ last.res = "Ok"
    /\ DOMAIN notes /= {}
    /\ DOMAIN deleted_notes = {}

\* C8: delete_note(id) for a live id removes id from notes, puts the same
\* note value into deleted_notes, sets the dirty flag of the collection and
\* makes try_get_note(id) and try_get_note_mut(id) return NoteNotFound; for
\* any other id it changes nothing.
C8_DeleteNote ==
    \A id \in AnyNoteId :
        LET ret == delete_note(Self, id) IN
        IF id \in DOMAIN notes
        THEN /\ DOMAIN ret.self.notes = DOMAIN notes \ {id}
             /\ \A n \in DOMAIN ret.self.notes : ret.self.notes[n] = notes[n]
             /\ DOMAIN ret.self.deleted_notes = DOMAIN deleted_notes \cup {id}
             /\ ret.self.deleted_notes[id] = notes[id]
             /\ \A n \in DOMAIN deleted_notes :
                    ret.self.deleted_notes[n] = deleted_notes[n]
             /\ ret.self.is_dirty
             /\ ret.self.styles = styles
             /\ ret.self.default_style = default_style
             /\ try_get_note(ret.self, id) = [ok |-> FALSE, err |-> "NoteNotFound"]
             /\ try_get_note_mut(ret.self, id) = [ok |-> FALSE, err |-> "NoteNotFound"]
        ELSE ret.self = Self

C8_Witness ==
    /\ last.op = "delete_note"
    /\ last.branch = "Some"
    /\ is_dirty
    /\ \E id \in DOMAIN deleted_notes : ~try_get_note(Self, id).ok

\* C9: try_restore_deleted_note(id) for an id of deleted_notes moves the note
\* back to notes, sets the dirty flag of the collection and returns the
\* restored note; for any other id it returns NoteNotFound and changes
\* nothing, the dirty flag included.
C9_RestoreDeletedNote ==
    \A id \in AnyNoteId :
        LET ret == try_restore_deleted_note(Self, id) IN
        IF id \in DOMAIN deleted_notes
        THEN /\ ret.res = "Ok"
             /\ DOMAIN ret.self.deleted_notes = DOMAIN deleted_notes \ {id}
             /\ \A n \in DOMAIN ret.self.deleted_notes :
                    ret.self.deleted_notes[n] = deleted_notes[n]
             /\ DOMAIN ret.self.notes = DOMAIN notes \cup {id}
             /\ try_get_note(ret.self, id) = [ok |-> TRUE, note |-> deleted_notes[id]]
             /\ \A n \in DOMAIN notes \ {id} : ret.self.notes[n] = notes[n]
             /\ ret.self.is_dirty
             /\ ret.self.styles = styles
             /\ ret.self.default_style = default_style
        ELSE /\ ret.res = "NoteNotFound"
             /\ ret.self = Self

C9_Witness ==
    /\ last.op = "try_restore_deleted_note"
    /\ last.res = "NoteNotFound"
    /\ DOMAIN notes /= {}
    /\ ~is_dirty

\* The value of a note: every field but the dirty bit.
NoteValue(note) ==
    [content |-> note.content, modified |-> note.modified, style_id |-> note.style_id,
     position |-> note.position, size |-> note.size,
     is_locked |-> note.is_locked, is_visible |-> note.is_visible]

\* Deleting and at once restoring a live note gives the note and the counts back.
C10_RoundTrip ==
    \A id \in DOMAIN notes :
        LET deleted == delete_note(Self, id).self
            ret == try_restore_deleted_note(deleted, id)
        IN /\ ret.res = "Ok"
           /\ try_get_note(ret.self, id).ok
           /\ NoteValue(try_get_note(ret.self, id).note) = NoteValue(notes[id])
           /\ get_notes_count(ret.self) = get_notes_count(Self)
           /\ Cardinality(DOMAIN ret.self.deleted_notes)
                  = Cardinality(DOMAIN deleted_notes)

\* A step leaves the notes that stay deleted as they are.
C10_DeletedNoteKept ==
    \A id \in NoteIds :
        (id \in DOMAIN deleted_notes /\ id \in DOMAIN deleted_notes') =>
            deleted_notes'[id] = deleted_notes[id]

\* C10: for every live note id, delete_note(id) followed by
\* try_restore_deleted_note(id) gives a live note equal in content, modified,
\* style id, position, size, locked and visible to the note before the delete
\* and the same counts of live and deleted notes as before; and no operation
\* of the collection changes a note while it is deleted.
C10_DeleteThenRestore == []C10_RoundTrip /\ [][C10_DeletedNoteKept]_vars

C10_Witness ==
    /\ last.op = "try_restore_deleted_note"
    /\ last.res = "Ok"
    /\ \E n \in DOMAIN notes : notes[n].is_locked /\ ~notes[n].is_visible

\* is_unsaved() is the disjunction of the three kinds of dirty bit, is true
\* after a successful delete_note or try_restore_deleted_note and false after
\* commit_changes().
C11_State ==
    /\ is_unsaved(Self) <=>
           \/ is_dirty
           \/ \E n \in DOMAIN notes : notes[n].is_dirty
           \/ \E s \in DOMAIN styles : styles[s].is_dirty
    /\ \A id \in DOMAIN notes : is_unsaved(delete_note(Self, id).self)
    /\ \A id \in DOMAIN deleted_notes : is_unsaved(try_restore_deleted_note(Self, id).self)
    /\ ~is_unsaved(commit_changes(Self).self)
    /\ last.op \in {"delete_note", "try_restore_deleted_note"}
           /\ last.res \in {"Ok", "Unit"} /\ last.branch /= "None" => is_unsaved(Self)
    /\ last.op = "commit_changes" => ~is_unsaved(Self)

\* A collection whose dirty flag is set stays unsaved over every step that
\* is not commit_changes().
C11_StaysUnsaved ==
    (is_dirty /\ last'.op /= "commit_changes") => is_unsaved(Self)'

\* C11: is_unsaved() is true exactly when the dirty flag of the collection is
\* set or a note of the notes map or a style has its dirty bit set; it is
\* true after a successful delete_note or try_restore_deleted_note, stays true
\* until the next commit_changes(), and is false immediately after it.
C11_IsUnsaved == []C11_State /\ [][C11_StaysUnsaved]_vars

C11_Witness ==
    /\ last.op = "try_restore_deleted_note"
    /\ last.res = "Ok"
    /\ is_unsaved(Self)
    /\ \A n \in DOMAIN notes : ~notes[n].is_dirty
    /\ \A s \in DOMAIN styles : ~styles[s].is_dirty

\* C12: immediately after commit_changes() no live note, no soft-deleted
\* note, no style and not the collection itself has its dirty bit set.
C12_CommitClearsAll ==
    last.op = "commit_changes" =>
        /\ ~is_dirty
        /\ \A n \in DOMAIN notes : ~notes[n].is_dirty
        /\ \A n \in DOMAIN deleted_notes : ~deleted_notes[n].is_dirty
        /\ \A s \in DOMAIN styles : ~styles[s].is_dirty

\* C20: after new_note() or new_style(name) is_unsaved() is true (until the
\* next commit_changes()).
C20_CreationIsUnsaved ==
    last.op \in {"new_note", "new_style"} => is_unsaved(Self)

\* The collections a change of the style map leaves: after new_style (in any
\* order of the new map) and after a successful delete_style.
AfterStyleChange ==
    LET unused == StyleIds \ UsedStyleIds(Self) IN
    {new_style(Self, name, Min(unused), keys).self :
         name \in StyleNames,
         keys \in IF unused = {} THEN {} ELSE Orders(DOMAIN styles \cup {Min(unused)})}
    \cup {delete_style(Self, id).self : id \in DOMAIN styles}

\* C13: an index taken from a get_style_names() listing before a later
\* change of the style map fails with a not-found error; it never selects a
\* style other than the one the listing showed at that index.  (Stated in the
\* weaker form: it fails, or it selects the style of the listing.)
C13_StaleIndexFails ==
    \A index \in 0..(Len(get_style_names(Self)) - 1) :
        \A later \in AfterStyleChange :
            later.style_keys /= style_keys =>
                /\ \/ try_set_default_style_by_index(later, index).res = "StyleIndexNotFound"
                   \/ try_set_default_style_by_index(later, index).self.default_style
                          = style_keys[index + 1]
                /\ \A n \in DOMAIN later.notes :
                       \/ try_set_note_style_by_index(later, n, index).res
                              = "StyleIndexNotFound"
                       \/ try_set_note_style_by_index(later, n, index).self.notes[n].style_id
                              = style_keys[index + 1]

\* The results that are errors.
ErrorResults == {"NoteNotFound", "StyleNotFound", "StyleIndexNotFound", "DeleteLastStyle"}

\* C19: an operation of the collection that returns an error leaves notes,
\* deleted_notes, styles, default_style and every dirty bit as they were.
C19_ErrorsChangeNothing ==
    /\ \A id \in AnyNoteId :
           /\ ~try_get_note(Self, id).ok => try_get_note(Self, id).err \in ErrorResults
           /\ ~try_get_note_mut(Self, id).ok => try_get_note_mut(Self, id).err \in ErrorResults
           /\ try_restore_deleted_note(Self, id).res \in ErrorResults =>
                  try_restore_deleted_note(Self, id).self = Self
           /\ \A index \in StyleIndexes :
                  try_set_note_style_by_index(Self, id, index).res \in ErrorResults =>
                      try_set_note_style_by_index(Self, id, index).self = Self
    /\ \A id \in AnyStyleId :
           delete_style(Self, id).res \in ErrorResults => delete_style(Self, id).self = Self
    /\ \A index \in StyleIndexes :
           try_set_default_style_by_index(Self, index).res \in ErrorResults =>
               try_set_default_style_by_index(Self, index).self = Self

C19_Witness ==
    /\ last.op = "try_set_note_style_by_index"
    /\ last.res = "StyleIndexNotFound"
    /\ ~is_dirty
    /\ DOMAIN notes /= {}

\* What a setter is to do to an entity whose field has value old: nothing
\* when new = old, else the entity after has the dirty bit set.
SetterEffect(before, after, old, new, got) ==
    /\ got = new
    /\ new = old => after = before
    /\ new /= old => after.is_dirty

\* C18: a setter of NoteData (set_position, set_size, set_locking,
\* set_visibility, set_style) or of NoteStyle (set_name, set_font,
\* set_background_color) called with the current value leaves the entity and
\* its is_changed() as they were; called with another value it stores the
\* value and is_changed() becomes true.
C18_SettersMarkOnChange ==
    /\ \A n \in DOMAIN notes :
           LET note == notes[n] IN
           /\ \A p \in Positions :
                  SetterEffect(note, set_position(note, p[1], p[2]), note.position, p,
                               set_position(note, p[1], p[2]).position)
           /\ \A z \in Sizes :
                  SetterEffect(note, set_size(note, z[1], z[2]), note.size, z,
                               set_size(note, z[1], z[2]).size)
           /\ \A on \in BOOLEAN :
                  /\ SetterEffect(note, set_locking(note, on), note.is_locked, on,
                                  set_locking(note, on).is_locked)
                  /\ SetterEffect(note, set_visibility(note, on), note.is_visible, on,
                                  set_visibility(note, on).is_visible)
           /\ \A id \in AnyStyleId :
                  SetterEffect(note, set_style(note, id), note.style_id, id,
                               set_style(note, id).style_id)
    /\ \A s \in DOMAIN styles :
           LET style == styles[s] IN
           /\ \A name \in EditNames :
                  SetterEffect(style, set_name(style, name), style.name, name,
                               set_name(style, name).name)
           /\ \A font \in Fonts :
                  SetterEffect(style, set_font(style, font), style.font, font,
                               set_font(style, font).font)
           /\ \A color \in Colors :
                  SetterEffect(style, set_background_color(style, color), style.bgcolor,
                               color, set_background_color(style, color).bgcolor)

C18_Witness ==
    /\ last.op = "set_size"
    /\ last.res = "Ok"
    /\ \E n \in DOMAIN notes :
           /\ ~NoteData_is_changed(notes[n])
           /\ notes[n].size /= <<DEF_NOTE_WIDTH, DEF_NOTE_HEIGHT>>

\* C17: in every reachable state the size of every note, live or deleted,
\* has width >= 1 and height >= 1.
C17_SizeNeverZero ==
    /\ \A n \in DOMAIN notes : notes[n].size[1] >= 1 /\ notes[n].size[2] >= 1
    /\ \A n \in DOMAIN deleted_notes :
           deleted_notes[n].size[1] >= 1 /\ deleted_notes[n].size[2] >= 1


\* The collection the last call built from a legacy file.
Imported == legacy_file.exists /\ last.op = "try_import" /\ last.res = "Ok"

C15_LegacyRoundTrip ==
    (database.parsed /\ database.ok) =>
        \A now \in Nows :
            LET again == NotesDatabase_try_import(
                             NotesDatabase_try_export(database.value), now)
            IN again.ok /\ again.value = database.value

\* The elements of a legacy array that are there, the missing ones of the
\* first two replaced by pad.
Padded(array, pad) ==
    <<IF Len(array) >= 1 THEN array[1] ELSE pad,
      IF Len(array) >= 2 THEN array[2] ELSE pad>>

\* C16: a note built from a legacy record has the first two elements of the
\* position array, a missing one replaced by 0, and the first two elements of
\* the size array, a missing one replaced by 1.
C16_ShortArraysPadded ==
    Imported =>
        \A i \in DOMAIN legacy_file.json.notes :
            LET src == legacy_file.json.notes[i]
            IN /\ notes[src.uuid].position = Padded(src.properties.position, 0)
               /\ notes[src.uuid].size = Padded(src.properties.size, 1)


HideAll == [note \in {notes[n] : n \in DOMAIN notes} |-> set_visibility(note, FALSE)]
LockAll == [note \in {notes[n] : n \in DOMAIN notes} |-> set_locking(note, TRUE)]
FlipLock == [note \in {notes[n] : n \in DOMAIN notes} |->
                set_locking(note, ~note.is_locked)]

FirstChars(text, n) == SubSeq(text, 1, IF Len(text) < n THEN Len(text) ELSE n)

\* The title the text of a note is to have.
TitleOf(content) ==
    IF content = "" THEN "<Empty>"
    ELSE IF lines_next(content).line = "" THEN "Untitled"
    ELSE FirstChars(lines_next(content).line, 12)

\* C26: get_title() is "<Empty>" for an empty content, "Untitled" for a
\* content whose first line is empty, and otherwise the first line cut to at
\* most 12 characters, a character never being split.
C26_Title ==
    \A n \in DOMAIN notes :
        NoteData_get_title(notes[n]).title = TitleOf(notes[n].content)


\* C29: soft-deleted notes stay in memory: what try_write writes and the
\* NotesDatabase made for an export hold the live notes only, and a
\* collection read by try_read has no deleted notes and no dirty bit set.
C29_DeletedNotesInMemoryOnly ==
    /\ DOMAIN try_write(Self) = {"notes", "styles", "default_style"}
    /\ DOMAIN try_write(Self).notes = DOMAIN notes
    /\ DOMAIN try_write(Self).notes \cap DOMAIN deleted_notes = {}
    /\ \A order \in Orders(DOMAIN notes) :
          LET db == ToDatabase(Self, order)
          IN /\ DOMAIN db = {"notes", "properties", "categories"}
             /\ {db.notes[i].uuid : i \in DOMAIN db.notes} = DOMAIN notes
             /\ \A i \in DOMAIN db.notes : db.notes[i].uuid \notin DOMAIN deleted_notes
    /\ \A keys \in Orders(DOMAIN styles) :
          LET c == try_read(try_write(Self), keys)
          IN /\ c.deleted_notes = EmptyMap
             /\ ~c.is_dirty
             /\ \A n \in DOMAIN c.notes : ~c.notes[n].is_dirty
             /\ \A id \in DOMAIN c.styles : ~c.styles[id].is_dirty
    /\ last.op = "try_read" =>
          /\ deleted_notes = EmptyMap
          /\ ~is_unsaved(Self)

C29_Witness ==
    /\ DOMAIN deleted_notes # {}
    /\ \E n \in DOMAIN deleted_notes : deleted_notes[n].is_dirty
    /\ \E id \in DOMAIN styles : styles[id].is_dirty
    /\ is_dirty


\* C25: a legacy timestamp is read as local time when the local zone has it
\* exactly once and otherwise as the same reading of the clock in UTC, and
\* reading the same text twice gives the same instant.
C25_TimestampReading ==
    legacy_file.exists =>
        \A i \in DOMAIN legacy_file.json.notes :
            LET s == legacy_file.json.notes[i].last_modified
            IN NaiveDateTime_parse_from_str(s).ok =>
                  \A first, second \in Nows :
                      /\ deserialize_from_str(s, first) = deserialize_from_str(s, second)
                      /\ deserialize_from_str(s, first).value =
                             IF from_local_datetime_single(s).some THEN DateTime(s, 0)
                             ELSE from_naive_utc_and_offset(s)


\* The places of a text where pat stands.
Places(text, pat) ==
    {i \in 1..(Len(text) - Len(pat) + 1) : SubSeq(text, i, i + Len(pat) - 1) = pat}

\* The names of a list stand in the text in the order of the list.
InOrder(text, names) ==
    \A i \in 1..(Len(names) - 1) :
        /\ Places(text, names[i]) # {}
        /\ Places(text, names[i + 1]) # {}
        /\ Min(Places(text, names[i])) < Min(Places(text, names[i + 1]))

\* C28: the bytes of try_export are one line of ASCII JSON: no line feed,
\* no character outside ASCII, a comma is followed by exactly one space, the
\* fields stand in the order of their declaration and the notes in the order
\* of the database.
C28_ExportText ==
    (database.parsed /\ database.ok) =>
        \A keys \in Orders(DOMAIN database.value.categories) :
            LET db == database.value
                text == try_export_bytes(db, keys)
            IN /\ Places(text, "\n") = {}
               /\ Places(text, "é") = {}
               /\ \A i \in Places(text, ",") :
                     /\ SubSeq(text, i + 1, i + 1) = " "
                     /\ SubSeq(text, i + 2, i + 2) # " "
               /\ InOrder(text, <<"\"notes\": ", "\"properties\": {\"all_visible\": ",
                                  "\"default_cat\": ", "\"categories\": ">>)
               /\ Len(db.notes) > 0 =>
                     InOrder(text, <<"\"uuid\": ", "\"body\": ", "\"last_modified\": ",
                                     "\"properties\": {\"position\": ", "\"size\": ",
                                     "\"locked\": ", "\"cat\": ">>)
               /\ Len(keys) > 0 =>
                     InOrder(text, <<"\"name\": ", "\"bgcolor_hsv\": ", "\"font\": ">>)
               /\ InOrder(text, [i \in DOMAIN db.notes |->
                                    "\"uuid\": \"" \o ToString(db.notes[i].uuid) \o "\""])

C28_Witness ==
    /\ database.parsed
    /\ database.ok
    /\ last.op = "NotesDatabase::try_export"
    /\ Len(database.value.notes) = 2
    /\ database.value.notes[1].uuid = 2
    /\ database.value.notes[1].body = "é"


\* C24: at startup the legacy import is scheduled exactly when
\* is_default_collection() is true, that is exactly when the collection has at
\* most one note and at most one style, and only when the collection was not
\* loaded from the config store.
C24_AutoImportOnFirstRun ==
    last.op = "init" =>
        /\ import_task.state = "running" <=> is_default_collection(Self)
        /\ is_default_collection(Self) <=>
               Cardinality(DOMAIN notes) <= 1 /\ Cardinality(DOMAIN styles) <= 1
        /\ import_task.state = "running" => last.branch = "default"


\* C23: whenever no window is being opened, a live note has a sticky window
\* if and only if its is_visible flag is true.
C23_WindowIffVisible ==
    (running /\ opening = {}) =>
        \A n \in DOMAIN notes :
            (\E w \in DOMAIN sticky_windows : sticky_windows[w] = n) <=> notes[n].is_visible


\* What save_notes leaves in the store for the collection as it is.
Written == [empty |-> FALSE, valid |-> TRUE, json |-> try_write(Self)]

\* C21: Quit saves if and only if is_unsaved() is true; on SaveNotes and on
\* Quit, a save that fails leaves the store and every dirty bit as they were,
\* so is_unsaved() stays true, and a save that succeeds has written the
\* collection before commit_changes() cleared the dirty bits.
C21_SaveThenCommit ==
    [][/\ last'.op = "Quit" =>
            /\ last'.branch = "save" <=> is_unsaved(Self)
            /\ ~is_unsaved(Self) => config_notes' = config_notes
       /\ (last'.op \in {"Quit", "SaveNotes"} /\ last'.branch = "save") =>
            IF last'.res = "Ok"
            THEN /\ config_notes' = Written
                 /\ ~is_unsaved(Self')
                 /\ Self' = commit_changes(Self).self
            ELSE /\ config_notes' = config_notes
                 /\ Self' = Self
                 /\ is_unsaved(Self) => is_unsaved(Self')]_vars

\* Quit tried to save changed notes, the commit of the transaction failed
\* and the notes are still unsaved.
C21_Witness ==
    /\ last.op = "Quit"
    /\ last.branch = "save"
    /\ last.res = "tx.commit"
    /\ is_unsaved(Self)
    /\ ~running


\* C22: the export task holds the collection as it was when ExportNotes was
\* handled, later changes of the notes do not reach it, what it writes is that
\* collection, and it leaves the notes of the model alone; the import task
\* leaves them alone too, when it starts, when it ends and at LoadNotesFailed,
\* and they become the imported collection at LoadNotesCompleted.
C22_TasksDoNotAlias ==
    [][/\ last'.op = "ExportNotes" => export_task'.notes = Self /\ Self' = Self
       /\ (export_task.state = "running" /\ last'.op /= "export_notes") =>
              export_task' = export_task
       /\ last'.op = "export_notes" =>
              /\ Self' = Self
              /\ last'.res = "completed" =>
                     \E order \in Orders(DOMAIN export_task.notes.notes) :
                         legacy_file'.json =
                             NotesDatabase_try_export(ToDatabase(export_task.notes, order))
       /\ last'.op \in {"ImportNotes", "import_notes", "LoadNotesFailed"} => Self' = Self
       /\ last'.op = "LoadNotesCompleted" => Self' = import_task.imported]_vars

\* An export has ended after the notes were changed under it: the file does
\* not hold the notes as they are now.
C22_Witness ==
    /\ last.op = "export_notes"
    /\ last.res = "completed"
    /\ DOMAIN notes /= {}
    /\ \A order \in Orders(DOMAIN notes) :
           legacy_file.json /= NotesDatabase_try_export(ToDatabase(Self, order))


\* C39: delete_style(id) returns DeleteLastStyle whenever there are fewer than
\* 2 styles, whatever id is, StyleNotFound when there are at least 2 styles
\* and id is none of them, and Ok otherwise; after Ok, id is no style, there
\* is exactly one style less and the collection's dirty flag is set.
C39_DeleteStyleErrors ==
    \A id \in AnyStyleId :
        LET ret == delete_style(Self, id) IN
        /\ ret.res \in {"DeleteLastStyle", "StyleNotFound", "Ok"}
        /\ ret.res = "DeleteLastStyle" <=> get_styles_count(Self) < 2
        /\ ret.res = "StyleNotFound" <=>
               get_styles_count(Self) >= 2 /\ id \notin DOMAIN styles
        /\ ret.res = "Ok" =>
               /\ id \notin DOMAIN ret.self.styles
               /\ get_styles_count(ret.self) = get_styles_count(Self) - 1
               /\ ret.self.is_dirty

\* delete_style has removed one of two styles of a collection that was clean
\* before.
C39_Witness ==
    /\ last.op = "delete_style"
    /\ last.res = "Ok"
    /\ get_styles_count(Self) = 1
    /\ is_dirty


\* C32: new_style(name) inserts exactly one style, under a fresh id, with the
\* given name and the font and background color of the default style, or the
\* default font and white when the default style does not resolve; there is
\* one style more, and default_style, every style there was and every note
\* are unchanged.
C32_NewStyle ==
    \A name \in EditNames, id \in StyleIds \ UsedStyleIds(Self) :
        \A keys \in Orders(DOMAIN styles \cup {id}) :
            LET ret == new_style(Self, name, id, keys)
                resolves == default_style \in DOMAIN styles
            IN /\ DOMAIN ret.self.styles = DOMAIN styles \cup {id}
               /\ get_styles_count(ret.self) = get_styles_count(Self) + 1
               /\ ret.self.styles[id].name = name
               /\ ret.self.styles[id].font =
                      IF resolves THEN styles[default_style].font ELSE Font_default
               /\ ret.self.styles[id].bgcolor =
                      IF resolves THEN styles[default_style].bgcolor ELSE Color_WHITE
               /\ ret.self.default_style = default_style
               /\ \A s \in DOMAIN styles : ret.self.styles[s] = styles[s]
               /\ ret.self.notes = notes
               /\ ret.self.deleted_notes = deleted_notes

\* new_style has copied a font and a color that are not the hardcoded ones
\* from the default style.
C32_Witness ==
    /\ last.op = "new_style"
    /\ default_style \in DOMAIN styles
    /\ \E s \in DOMAIN styles \ {default_style} :
           /\ styles[s].bgcolor = styles[default_style].bgcolor
           /\ styles[s].font = styles[default_style].font
           /\ styles[s].bgcolor /= Color_WHITE
           /\ styles[s].font /= Font_default


\* C33: both setters by index take the style at position i of the order in
\* which get_style_names() lists the styles.  For i >= the style count both
\* return StyleIndexNotFound, the note setter also for a note that is not
\* live; for a valid i the note setter returns NoteNotFound for a note that is
\* not live.  The default setter sets the collection's dirty flag only when
\* the default changes; the note setter changes only the note and marks it
\* only when its style changes.
C33_SetStyleByIndex ==
    \A i \in StyleIndexes, note_id \in NoteIds \cup {NilUuid} :
        LET d == try_set_default_style_by_index(Self, i)
            n == try_set_note_style_by_index(Self, note_id, i)
        IN IF i >= get_styles_count(Self)
           THEN /\ d.res = "StyleIndexNotFound" /\ d.self = Self
                /\ n.res = "StyleIndexNotFound" /\ n.self = Self
           ELSE LET id == style_keys[i + 1] IN
                /\ get_style_names(Self)[i + 1] = styles[id].name
                /\ d.res = "Ok"
                /\ d.self = [Self EXCEPT !.default_style = id,
                                         !.is_dirty = @ \/ default_style /= id]
                /\ IF note_id \in DOMAIN notes
                   THEN /\ n.res = "Ok"
                        /\ n.self = [Self EXCEPT
                                        !.notes[note_id] =
                                            [@ EXCEPT !.style_id = id,
                                                      !.is_dirty = @ \/ notes[note_id].style_id /= id]]
                   ELSE /\ n.res = "NoteNotFound"
                        /\ n.self = Self

\* The note setter has given a note a style that is not the default one: the
\* note is marked, the collection is not.
C33_Witness ==
    /\ last.op = "try_set_note_style_by_index"
    /\ last.res = "Ok"
    /\ ~is_dirty
    /\ get_styles_count(Self) = 2
    /\ \E n \in DOMAIN notes : notes[n].is_dirty /\ notes[n].style_id /= default_style


\* C34: a successful delete_style(id) leaves default_style alone when id is
\* not the default style, gives the live notes whose style was id the
\* resulting default style and marks them, leaves every other live note and
\* every soft-deleted note as it was; a soft-deleted note whose style was id
\* keeps id when it is restored afterwards, and try_get_note_style then
\* returns the default style for it.
C34_DeleteStyleFrame ==
    \A id \in AnyStyleId :
        LET ret == delete_style(Self, id) IN
        ret.res = "Ok" =>
            /\ id /= default_style => ret.self.default_style = default_style
            /\ \A n \in DOMAIN notes :
                   ret.self.notes[n] =
                       IF notes[n].style_id = id
                       THEN [notes[n] EXCEPT !.style_id = ret.self.default_style,
                                             !.is_dirty = TRUE]
                       ELSE notes[n]
            /\ DOMAIN ret.self.notes = DOMAIN notes
            /\ ret.self.deleted_notes = deleted_notes
            /\ \A n \in DOMAIN deleted_notes :
                   deleted_notes[n].style_id = id =>
                       LET back == try_restore_deleted_note(ret.self, n).self IN
                       /\ back.notes[n].style_id = id
                       /\ try_get_note_style(back, n).ok
                       /\ try_get_note_style(back, n) = try_get_default_style(back)


\* The legacy databases a collection is built from: those the program starts
\* from, shown or hidden, and databases of two notes whose uuids differ or are
\* the same.
ImportedDatabases ==
    {[value EXCEPT !.properties.all_visible = shown] :
         value \in LegacyDatabases, shown \in BOOLEAN}
    \cup {[notes |-> <<LegacyNote(1, 1), [LegacyNote(u, 1) EXCEPT !.body = "again"]>>,
           properties |-> [all_visible |-> shown, default_cat |-> 1],
           categories |-> [id \in {1} |-> LegacyCategory]] : u \in 1..2, shown \in BOOLEAN}

\* What the claim says of the collection built from value, but for the count
\* of the notes and the styles.
ImportedAsClaimed(value, c) ==
    /\ DOMAIN c.notes = {value.notes[i].uuid : i \in DOMAIN value.notes}
    /\ \A i \in DOMAIN value.notes :
           /\ c.notes[value.notes[i].uuid].is_visible = value.properties.all_visible
           /\ ~c.notes[value.notes[i].uuid].is_dirty
    /\ DOMAIN value.categories \subseteq DOMAIN c.styles
    /\ c.deleted_notes = EmptyMap
    /\ c.is_dirty
    /\ is_unsaved(c)

\* Converting the collection back writes all_visible = true and default_cat =
\* default_style.
ExportedAsClaimed ==
    \A order \in Orders(DOMAIN notes) :
        ToDatabase(Self, order).properties =
            [all_visible |-> TRUE, default_cat |-> default_style]

\* The collection's dirty flag, once set, stays set until commit_changes().
StaysUnsaved ==
    (is_dirty /\ last'.op /= "commit_changes") => (is_dirty' /\ is_unsaved(Self'))

\* C38 as stated: a collection built from a legacy database has one live note
\* per legacy note, keyed by its uuid, shown as all_visible says and not
\* dirty, one style per category, no soft-deleted note and its dirty flag set,
\* so is_unsaved() is true until the first commit_changes(); converting back
\* writes all_visible = true and default_cat = default_style.
C38_OnePerNoteAndCategory ==
    /\ [](/\ \A value \in ImportedDatabases :
                \A keys \in Orders(DOMAIN value.categories) :
                    LET c == FromDatabase(value, keys) IN
                    /\ ImportedAsClaimed(value, c)
                    /\ get_notes_count(c) = Len(value.notes)
                    /\ DOMAIN c.styles = DOMAIN value.categories
          /\ ExportedAsClaimed)
    /\ [][StaysUnsaved]_vars

\* C38 as amended: a collection built from a legacy database has one live note
\* per uuid of the legacy notes (of two notes with one uuid the later one),
\* shown as all_visible says and not dirty, one style per category and, when
\* there is no category, one default style made for it, no soft-deleted note
\* and its dirty flag set, so is_unsaved() is true until the first
\* commit_changes(); converting back writes all_visible = true and
\* default_cat = default_style.
C38_ImportedCollection ==
    /\ [](/\ \A value \in ImportedDatabases :
                \A keys \in Orders(DOMAIN value.categories) :
                    LET c == FromDatabase(value, keys)
                        uuids == {value.notes[i].uuid : i \in DOMAIN value.notes}
                        later(u) == CHOOSE i \in DOMAIN value.notes :
                                       /\ value.notes[i].uuid = u
                                       /\ \A j \in DOMAIN value.notes :
                                              value.notes[j].uuid = u => j <= i
                    IN /\ ImportedAsClaimed(value, c)
                       /\ get_notes_count(c) = Cardinality(uuids)
                       /\ \A u \in uuids : c.notes[u].content = value.notes[later(u)].body
                       /\ IF DOMAIN value.categories = {}
                          THEN /\ get_styles_count(c) = 1
                               /\ c.styles[c.default_style] = NoteStyle_default
                          ELSE DOMAIN c.styles = DOMAIN value.categories
          /\ ExportedAsClaimed)
    /\ [][StaysUnsaved]_vars

\* A collection has been built from a legacy database of one hidden note and
\* no category: the note is live, hidden and not dirty, a default style was
\* made, and the collection is unsaved.
C38_Witness ==
    /\ last.op = "try_import"
    /\ is_dirty
    /\ is_unsaved(Self)
    /\ deleted_notes = EmptyMap
    /\ get_styles_count(Self) = 1
    /\ styles[default_style] = NoteStyle_default
    /\ \E n \in DOMAIN notes :
           /\ notes[n].content = "hi"
           /\ ~notes[n].is_visible
           /\ ~notes[n].is_dirty


\* The note of id n, live or soft-deleted.
NoteOf(n) == IF n \in DOMAIN notes THEN notes[n] ELSE deleted_notes[n]

\* C31: set_content(text) replaces the content, sets modified to now and sets
\* the note's dirty bit, whether or not text is the content already, and
\* changes nothing else of the note; the dirty bit of a note then stays set
\* until commit_changes() runs while the note is live.
C31_SetContent ==
    /\ [](\A n \in DOMAIN notes \cup DOMAIN deleted_notes :
             \A text \in Contents \cup {NoteOf(n).content}, now \in Nows :
                 set_content(NoteOf(n), text, now) =
                     [NoteOf(n) EXCEPT !.content = text, !.modified = now,
                                       !.is_dirty = TRUE])
    /\ [][\A n \in DOMAIN notes \cup DOMAIN deleted_notes :
             (NoteOf(n).is_dirty /\ ~NoteOf(n)'.is_dirty) =>
                 (last'.op = "commit_changes" /\ n \in DOMAIN notes)]_vars

\* set_content has been given the text the note already had, and the note is
\* dirty.
C31_Witness ==
    /\ last.op = "set_content"
    /\ last.res = "Ok"
    /\ ~is_dirty
    /\ \E n \in DOMAIN notes : notes[n].content = "" /\ notes[n].is_dirty


\* C37: in every reachable state every entry of sticky_windows refers to a
\* note that is live in the collection.
C37_WindowsOfLiveNotes ==
    \A w \in DOMAIN sticky_windows : sticky_windows[w] \in DOMAIN notes


\* C35: EditStyleCancel removes at most the style of the dialog, and only if
\* StyleNew created that style when it opened the dialog; when StyleEdit
\* opened the dialog for a style that was there, cancelling leaves the styles,
\* default_style and the style of every note as they were.
C35_CancelRemovesOnlyNewStyle ==
    [][last'.op = "EditStyleCancel" =>
          IF edit_style.by = "StyleNew"
          THEN /\ DOMAIN styles \ {edit_style.id} \subseteq DOMAIN styles'
               /\ \A s \in DOMAIN styles' : styles'[s] = styles[s]
          ELSE /\ styles' = styles
               /\ default_style' = default_style
               /\ \A n \in DOMAIN notes : notes'[n].style_id = notes[n].style_id]_vars


\* The window on which the last message called a method of the editor.
Called(op, method) == last'.op = op /\ last'.branch = method

\* C36: the editor of a sticky window has two states.  start_edit succeeds
\* only when the window is not editing and then holds the content of the note,
\* otherwise it answers AlreadyEditing and the buffer is as it was; finish_edit
\* and do_edit_action succeed only when the window is editing, otherwise they
\* answer EditingIsOff; after finish_edit the window is not editing.  The
\* content of a note changes only in a NoteEdit(id, false) whose finish_edit
\* succeeded, to the text of the buffer, and the note of the window is live;
\* on_escape changes no note.
C36_EditMode ==
    [][/\ Called("NoteEdit", "start_edit") =>
            LET w == last'.window IN
            IF edit_context[w].some
            THEN last'.res = "AlreadyEditing" /\ edit_context'[w] = edit_context[w]
            ELSE /\ last'.res = "Ok"
                 /\ edit_context'[w] =
                        [some |-> TRUE, content |-> notes[sticky_windows[w]].content]
       /\ Called("NoteEdit", "finish_edit") \/ Called("Escape", "finish_edit") =>
            LET w == last'.window IN
            /\ last'.res = IF edit_context[w].some THEN "Ok" ELSE "EditingIsOff"
            /\ ~edit_context'[w].some
       /\ Called("Edit", "do_edit_action") =>
            LET w == last'.window IN
            IF edit_context[w].some
            THEN last'.res = "Ok" /\ edit_context'[w].some
            ELSE last'.res = "EditingIsOff" /\ edit_context'[w] = edit_context[w]
       /\ \A n \in DOMAIN notes \cap DOMAIN notes' :
            notes'[n].content /= notes[n].content =>
                /\ Called("NoteEdit", "finish_edit")
                /\ ~last'.is_on
                /\ last'.res = "Ok"
                /\ sticky_windows[last'.window] = n
                /\ notes'[n].content = edit_context[last'.window].content
       /\ last'.op = "Escape" => notes' = notes /\ deleted_notes' = deleted_notes
       /\ (last'.op = "NoteEdit" /\ last'.window \in DOMAIN sticky_windows
              /\ sticky_windows[last'.window] \notin DOMAIN notes) =>
            /\ notes' = notes /\ deleted_notes' = deleted_notes
            /\ edit_context' = edit_context]_vars

\* A NoteEdit(id, false) took the edited text of the window as the content of
\* its note while a second window of the note is still editing.
C36_Witness ==
    /\ last.op = "NoteEdit" /\ last.branch = "finish_edit" /\ last.res = "Ok"
    /\ notes[sticky_windows[last.window]].content = "note"
    /\ \E w \in DOMAIN sticky_windows : w /= last.window /\ edit_context[w].some
====
